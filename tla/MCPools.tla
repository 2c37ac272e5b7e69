------------------------------ MODULE MCPools ------------------------------
(* The two programs that hand a list of files to a pool of processes, on    *)
(* small lists for TLC: in a behaviour one of them is run, and the other is *)
(* not.                                                                     *)
EXTENDS LaikaPool, Cloudscan

LaikaNotRun ==
  /\ jobs = 0 /\ main = "ended" /\ unput = <<>> /\ tasks = <<>> /\ unfinished = 0
  /\ doing = [c \in Consumers |-> [at |-> "ended", file |-> Pill]]
  /\ results = <<>> /\ printed = <<>> /\ monitor = "off"

CloudNotRun ==
  /\ options = [recursive |-> FALSE, nolimit |-> FALSE, ssh |-> FALSE, full |-> FALSE]
  /\ listed = 0 /\ front = "gone"
  /\ Idle

PoolsInit == (Init /\ CloudNotRun) \/ (LaikaNotRun /\ CloudInit)

LaikaStep == Next /\ UNCHANGED cloudVars
CloudStep == CloudNext /\ UNCHANGED vars

PoolsSpec ==
  /\ PoolsInit /\ [][LaikaStep \/ CloudStep]_<<vars, cloudVars>>
  /\ WF_vars(Main) /\ WF_vars(MonitorEnds)
  /\ \A c \in Consumers : WF_vars(Consumer(c))
  /\ CloudFair
============================================================================
