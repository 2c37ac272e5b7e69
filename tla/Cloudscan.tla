----------------------------- MODULE Cloudscan -----------------------------
(***************************************************************************)
(* The network client cloudscan.py.  For one file, main sends it itself    *)
(* and prints the reply.  For a list, it puts the files and one "STOP" per *)
(* process into a Queue, starts the processes, and writes to its log as    *)
(* many results as there are files.                                        *)
(*                                                                         *)
(* A Queue of multiprocessing: put() leaves a result in the process, whose *)
(* feeder thread moves it to the pipe that main reads, and a process that  *)
(* ends waits for its feeder.  When main ends, it waits for its processes. *)
(*                                                                         *)
(* A file is its position in the list.  What a result says (the JSON, "not *)
(* scanned", "timed out", "UNKNOWN ERROR") is left out.                    *)
(***************************************************************************)
EXTENDS Naturals, Sequences, FiniteSets, SequencesExt

CONSTANTS
  MaxListed,      \* bound: files of a list
  ListLimit,      \* 1000
  CloudProcs,     \* num_procs
  PipeSize        \* results that the pipe holds

ASSUME CloudAssumption ==
  /\ MaxListed \in Nat /\ ListLimit \in Nat
  /\ CloudProcs \in Nat \ {0} /\ PipeSize \in Nat \ {0}

Senders == 1 .. CloudProcs
Stop == 0

VARIABLES
  options,        \* the options that matter here
  listed,         \* files in fileList
  front,          \* what the main process is at
  ending,         \* why it left its loop, if it has
  jobQueue,
  sending,        \* what each process is at
  inHand,         \* the file it has taken, Stop for none
  outbox,         \* the results its feeder thread has not moved
  pipe,           \* result_queue
  logged          \* the results in cloudscan.log

cloudVars == <<options, listed, front, ending, jobQueue, sending, inHand, outbox, pipe, logged>>
senderVars == <<sending, inHand, outbox>>

(* full: return level "full", whose results are saved in a directory each.  *)
Options == [recursive : BOOLEAN, nolimit : BOOLEAN, ssh : BOOLEAN, full : BOOLEAN]

Listed == 1 .. listed

CloudTypeOK ==
  /\ options \in Options
  /\ listed \in 0 .. MaxListed
  /\ front \in {"list", "ask", "save", "collect", "wait", "gone", "refused"}
  /\ ending \in {"none", "complete", "log", "interrupt"}
  /\ jobQueue \in Seq(Listed \cup {Stop})
  /\ sending \in [Senders -> {"new", "connect", "get", "open", "send", "save", "leave", "gone"}]
  /\ inHand \in [Senders -> Listed \cup {Stop}]
  /\ outbox \in [Senders -> Seq(Listed)]
  /\ pipe \in Seq(Listed) /\ Len(pipe) <= PipeSize
  /\ logged \in Seq(Listed)

Idle ==
  /\ ending = "none"
  /\ jobQueue = <<>>
  /\ sending = [p \in Senders |-> "new"]
  /\ inHand = [p \in Senders |-> Stop]
  /\ outbox = [p \in Senders |-> <<>>]
  /\ pipe = <<>>
  /\ logged = <<>>

CloudInit ==
  /\ options \in Options
  /\ listed \in 0 .. MaxListed
  /\ front = "list"
  /\ Idle

---------------------------------------------------------------------------
(* main, with one file *)
OneFile(from, to) ==
  /\ front = from
  /\ front' = to
  /\ UNCHANGED <<options, listed, ending, jobQueue, senderVars, pipe, logged>>

(* It does not exist, or is too large.                                      *)
ReadOne == ~options.recursive /\ \E to \in {"ask", "refused"} : OneFile("list", to)

(* No tunnel; no reply, or one that cannot be printed.                      *)
AskOne ==
  \/ options.ssh /\ OneFile("ask", "refused")
  \/ OneFile("ask", "gone")
  \/ options.full /\ OneFile("ask", "save")

SaveOne == OneFile("save", "gone")

---------------------------------------------------------------------------
(* main, with a list *)
StartSenders ==
  /\ front = "list" /\ options.recursive
  /\ IF listed > ListLimit /\ ~options.nolimit
     THEN front' = "refused" /\ UNCHANGED <<jobQueue, sending>>
     ELSE /\ front' = "collect"
          /\ jobQueue' = [i \in 1 .. listed |-> i] \o [p \in Senders |-> Stop]
          /\ sending' = [p \in Senders |-> "connect"]
  /\ UNCHANGED <<options, listed, ending, inHand, outbox, pipe, logged>>

(* A result is written to the log; or the log cannot be written, which ends *)
(* the loop.                                                                *)
Collect ==
  /\ front = "collect" /\ Len(logged) < listed /\ pipe # <<>>
  /\ pipe' = Tail(pipe)
  /\ \/ logged' = Append(logged, Head(pipe)) /\ UNCHANGED <<front, ending>>
     \/ front' = "wait" /\ ending' = "log" /\ UNCHANGED logged
  /\ UNCHANGED <<options, listed, jobQueue, senderVars>>

(* A slip: the loop stops one result early.                                 *)
CollectedButOne ==
  /\ front = "collect" /\ Len(logged) + 1 >= listed
  /\ front' = "wait"
  /\ ending' = "complete"
  /\ UNCHANGED <<options, listed, jobQueue, senderVars, pipe, logged>>

CollectedAll ==
  /\ front = "collect" /\ Len(logged) = listed
  /\ front' = "wait"
  /\ ending' = "complete"
  /\ UNCHANGED <<options, listed, jobQueue, senderVars, pipe, logged>>

AwaitSenders ==
  /\ front = "wait" /\ \A p \in Senders : sending[p] = "gone"
  /\ front' = "gone"
  /\ UNCHANGED <<options, listed, ending, jobQueue, senderVars, pipe, logged>>

---------------------------------------------------------------------------
(* worker() *)
SenderGoes(p, to) == sending' = [sending EXCEPT ![p] = to]

(* result_queue.put, and on to the next file.                               *)
PutResult(p) ==
  /\ outbox' = [outbox EXCEPT ![p] = Append(@, inHand[p])]
  /\ inHand' = [inHand EXCEPT ![p] = Stop]
  /\ SenderGoes(p, "get")

Connect(p) ==
  /\ sending[p] = "connect"
  /\ \/ SenderGoes(p, "get")
     \/ options.ssh /\ SenderGoes(p, "leave")
  /\ UNCHANGED <<options, listed, front, ending, jobQueue, inHand, outbox, pipe, logged>>

(* A slip: the job is read and left in the queue.                           *)
FetchLeaves(p) ==
  /\ sending[p] = "get" /\ jobQueue # <<>>
  /\ inHand' = [inHand EXCEPT ![p] = Head(jobQueue)]
  /\ SenderGoes(p, IF Head(jobQueue) = Stop THEN "leave" ELSE "open")
  /\ UNCHANGED <<options, listed, front, ending, jobQueue, outbox, pipe, logged>>

Fetch(p) ==
  /\ sending[p] = "get" /\ jobQueue # <<>>
  /\ jobQueue' = Tail(jobQueue)
  /\ inHand' = [inHand EXCEPT ![p] = Head(jobQueue)]
  /\ SenderGoes(p, IF Head(jobQueue) = Stop THEN "leave" ELSE "open")
  /\ UNCHANGED <<options, listed, front, ending, outbox, pipe, logged>>

(* A slip: no result for a file that cannot be read.                        *)
OpenSilent(p) ==
  /\ sending[p] = "open"
  /\ \/ SenderGoes(p, "send") /\ UNCHANGED inHand
     \/ SenderGoes(p, "get") /\ inHand' = [inHand EXCEPT ![p] = Stop]
  /\ UNCHANGED <<options, listed, front, ending, jobQueue, outbox, pipe, logged>>

(* The file is read; or it is too large or cannot be read, which is its     *)
(* result.  (A name from stdin has kept its newline: it cannot.)            *)
OpenFile(p) ==
  /\ sending[p] = "open"
  /\ \/ SenderGoes(p, "send") /\ UNCHANGED <<inHand, outbox>>
     \/ PutResult(p)
  /\ UNCHANGED <<options, listed, front, ending, jobQueue, pipe, logged>>

(* A reply, no reply, or an exception: each is a result, but the first has  *)
(* to be saved before when the level is full.                               *)
SendFile(p) ==
  /\ sending[p] = "send"
  /\ \/ PutResult(p)
     \/ options.full /\ SenderGoes(p, "save") /\ UNCHANGED <<inHand, outbox>>
  /\ UNCHANGED <<options, listed, front, ending, jobQueue, pipe, logged>>

(* Saved, or not for an exception; or the directory cannot be made or is    *)
(* there already, and the process returns: no result.                       *)
SaveFile(p) ==
  /\ sending[p] = "save"
  /\ \/ PutResult(p)
     \/ SenderGoes(p, "leave") /\ UNCHANGED <<inHand, outbox>>
  /\ UNCHANGED <<options, listed, front, ending, jobQueue, pipe, logged>>

Feed(p) ==
  /\ sending[p] # "gone" /\ outbox[p] # <<>> /\ Len(pipe) < PipeSize
  /\ pipe' = Append(pipe, Head(outbox[p]))
  /\ outbox' = [outbox EXCEPT ![p] = Tail(@)]
  /\ UNCHANGED <<options, listed, front, ending, jobQueue, sending, inHand, logged>>

Leave(p) ==
  /\ sending[p] = "leave" /\ outbox[p] = <<>>
  /\ SenderGoes(p, "gone")
  /\ UNCHANGED <<options, listed, front, ending, jobQueue, inHand, outbox, pipe, logged>>

---------------------------------------------------------------------------
(* Ctrl-C, which reaches every process.  Main leaves its loop; a process    *)
(* ends where nothing catches the exception, without its feeder when it is  *)
(* already at its end.  What send() makes of it is swallowed by the bare    *)
(* "except:" around sending and saving: the file has a result, and the      *)
(* process goes on with the next; so does one whose client was just about   *)
(* to send, with the same file.                                             *)
Interrupted(p) ==
  CASE sending[p] \in {"connect", "get", "open"} -> {"leave"}
    [] sending[p] = "send" -> {"get", "send"}
    [] sending[p] = "save" -> {"get"}
    [] OTHER -> {"gone"}

Interrupt ==
  /\ front = "collect"
  /\ front' = "wait"
  /\ ending' = "interrupt"
  /\ sending' \in {s \in [Senders -> {"leave", "get", "send", "gone"}] :
                     \A p \in Senders : s[p] \in Interrupted(p)}
  /\ LET reports(p) == sending'[p] = "get"
     IN  /\ inHand' = [p \in Senders |-> IF reports(p) THEN Stop ELSE inHand[p]]
         /\ outbox' = [p \in Senders |->
              IF reports(p) THEN Append(outbox[p], inHand[p])
              ELSE IF sending'[p] = "gone" THEN <<>>
              ELSE outbox[p]]
  /\ UNCHANGED <<options, listed, jobQueue, pipe, logged>>

---------------------------------------------------------------------------
CloudMain == ReadOne \/ AskOne \/ SaveOne \/ StartSenders \/ Collect \/ CollectedAll \/ AwaitSenders

Sender(p) == Connect(p) \/ Fetch(p) \/ OpenFile(p) \/ SendFile(p) \/ SaveFile(p) \/ Leave(p)

CloudNext == CloudMain \/ Interrupt \/ \E p \in Senders : Sender(p) \/ Feed(p)

CloudSpec == CloudInit /\ [][CloudNext]_cloudVars

(* The processes and their threads run; a send() ends, as its poll has a    *)
(* time-out.                                                                *)
CloudFair ==
  /\ WF_cloudVars(CloudMain)
  /\ \A p \in Senders : WF_cloudVars(Sender(p)) /\ WF_cloudVars(Feed(p))

---------------------------------------------------------------------------
Times(f, s) == Cardinality({i \in DOMAIN s : s[i] = f})

(* Processes that took a file and ended without a result for it.            *)
Dropped == {p \in Senders : sending[p] \in {"leave", "gone"} /\ inHand[p] # Stop}

(* No process is left, and files are: none of them could connect.           *)
Stranded ==
  (\A p \in Senders : sending[p] = "gone") /\ ~(ToSet(jobQueue) \subseteq {Stop})

(* From the list to the log each file is in one place, so that it is sent   *)
(* by one process and reported once, whichever way the processes fail; only *)
(* an interrupt, or a log that cannot be written, loses results.            *)
EachOnce ==
  front \in {"collect", "wait"} => \A f \in Listed :
    LET places == Times(f, jobQueue) + Times(f, pipe) + Times(f, logged)
                    + Cardinality({p \in Senders : inHand[p] = f})
                    + Cardinality({p \in Senders : Contains(outbox[p], f)})
    IN  places <= 1 /\ (ending \in {"none", "complete"} => places = 1)

(* Main leaves its loop for having counted the results only when the log    *)
(* has one for every file, no process has dropped one, and all that is left *)
(* in the queue is for processes to stop on.                                *)
LogComplete ==
  ending = "complete" =>
    /\ ToSet(logged) = Listed /\ Len(logged) = listed
    /\ Dropped = {} /\ pipe = <<>>
    /\ ToSet(jobQueue) \subseteq {Stop}

(* A call that is not interrupted and can write its log ends, when no       *)
(* process drops a file and not all of them fail to connect.                *)
CloudEnds ==
  [](Dropped = {} /\ ending \in {"none", "complete"} /\ ~Stranded)
    => <>(front \in {"gone", "refused"})
===========================================================================
