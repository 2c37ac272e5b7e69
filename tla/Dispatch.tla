----------------------------- MODULE Dispatch -----------------------------
(***************************************************************************)
(* One scan of laikaboss/dispatch.py: Dispatch() matches the object        *)
(* against the first-pass rules, runs the modules they name, calls itself  *)
(* for every object a module extracts, and when all of that is done runs   *)
(* the modules of the second-pass (conditional) rules.  A caller may name  *)
(* the modules instead ("ext").                                            *)
(*                                                                         *)
(* The recursion is a stack of frames, one per call, the present call      *)
(* first.  Which rules match, what a module extracts and how it ends are   *)
(* open.  The timer of the scan (interruptingcow) raises an exception      *)
(* wherever the program is; explode_zip.py catches it together with other  *)
(* exceptions, so that the module may go on ("late" is then TRUE).         *)
(*                                                                         *)
(* Rules and modules leave flags at the objects; the module DISPOSITIONER  *)
(* collects those of an object and of what lies in it, for the verdict.    *)
(***************************************************************************)
EXTENDS Naturals, Sequences, FiniteSets, SequencesExt

CONSTANTS
  Modules,            \* names of scan modules, arguments included
  FirstRules,         \* rules of yaradispatchrules that name modules
  SecondRules,        \* rules of yaraconditionalrules that name modules
  ScanModules,        \* ScanModules[r]: the modules rule r names, in order
  Priority,           \* Priority[r]: the lower runs first
  RuleFlags,          \* RuleFlags[r]: flags an object is given when r matches it
  ParentFlags,        \* ParentFlags[r]: flags its parent is given then
  Broken,             \* modules that do not exist or cannot be initialised
  Exploders,          \* modules that extract objects; one may swallow the timer
  Dispositioner,      \* DISPOSITIONER
  Requests,           \* what callers may name themselves: lists of modules
                      \* (extScanModules), <<>> for none
  MaxDepth,           \* maxdepth; 0 is no limit
  StartDepth,         \* externalVars.depth of the root object
  MaxKids,            \* bound: objects a module extracts
  MaxObjects          \* bound: objects of a scan

Rules == FirstRules \cup SecondRules

ASSUME RulesAssumption ==
  /\ ScanModules \in [Rules -> Seq(Modules)]
  /\ Priority \in [Rules -> Nat]
  /\ Requests \subseteq Seq(Modules)
  /\ Exploders \subseteq Modules \ {Dispositioner}
  /\ Broken \subseteq Modules
ASSUME DepthAssumption == MaxDepth \in Nat /\ StartDepth \in Nat
ASSUME BoundsAssumption == MaxKids \in Nat /\ MaxObjects \in Nat

OwnFlags == {"max_depth_exceeded", "scan_timeout", "module_timeout", "quit_scan"}

Flags == OwnFlags \cup UNION {RuleFlags[r] \cup ParentFlags[r] : r \in Rules}

(* What a rule gives is marked "dispatch::", not "dispatch:err:" or the     *)
(* like: no rule gives a flag of the dispatcher's own.                      *)
ASSUME FlagsAssumption ==
  \A r \in Rules : (RuleFlags[r] \cup ParentFlags[r]) \cap OwnFlags = {}

Passes == {"first", "second", "ext"}

VARIABLES
  files,      \* result.files in the order the objects were added
  stack,      \* the calls of Dispatch under way, the innermost first
  raised,     \* the exception that unwinds the stack, or "none"
  late,       \* the time of the scan is over and the timer has been swallowed
  outcome     \* how the outermost call ended

vars == <<files, stack, raised, late, outcome>>

Object ==
  [parent : Nat,                  \* position of the parent in files, 0 for the root
   pass : Passes \cup {"none"},   \* the pass of the parent whose module extracted it
   depth : Nat,
   ran : Seq([pass : Passes, rank : Nat, module : Modules, kids : 0 .. MaxKids,
              stored : SUBSET SUBSET Flags,   \* what DISPOSITIONER stored, if it did
              late : BOOLEAN]),
   flags : SUBSET Flags,
   state : {"open", "done", "cut"}]

Frame ==
  [object : Nat,
   pass : Passes,
   depth : Nat,
   queue : SUBSET Rules,          \* moduleQueue
   rank : Nat,                    \* priority of the rule whose modules run
   next : Seq(Modules),           \* what is left of that rule
   seen : SUBSET Modules,         \* moduleSeen
   kids : 0 .. MaxKids,           \* moduleResult: objects still to be dispatched
   closing : BOOLEAN]             \* second pass under way or over

TypeOK ==
  /\ files \in Seq(Object)
  /\ stack \in Seq(Frame)
  /\ raised \in {"none", "scan_timeout", "quit", "error"}
  /\ late \in BOOLEAN
  /\ outcome \in {"running", "none", "scan_timeout", "quit", "error"}

---------------------------------------------------------------------------
Top == stack[1]
This == Top.object
IsRoot(o) == o = 1
Children(o) == {k \in DOMAIN files : files[k].parent = o}

NewObject(parent, pass, depth) ==
  [parent |-> parent, pass |-> pass, depth |-> depth, ran |-> <<>>,
   flags |-> {}, state |-> "open"]

(* A slip: a child starts from the depth of its parent.                     *)
FirstFrameSameDepth(o, depth, rules) ==
  [object |-> o, pass |-> "first", depth |-> depth, queue |-> rules,
   rank |-> 0, next |-> <<>>, seen |-> {}, kids |-> 0, closing |-> FALSE]

(* The depth grows only where an object is scanned for the first time.      *)
FirstFrame(o, depth, rules) ==
  [object |-> o, pass |-> "first", depth |-> depth + 1, queue |-> rules,
   rank |-> 0, next |-> <<>>, seen |-> {}, kids |-> 0, closing |-> FALSE]

SecondFrame(f, rules) ==
  [object |-> f.object, pass |-> "second", depth |-> f.depth, queue |-> rules,
   rank |-> 0, next |-> <<>>, seen |-> {}, kids |-> 0, closing |-> FALSE]

ExtFrame(o, depth, modules) ==
  [object |-> o, pass |-> "ext", depth |-> depth, queue |-> {},
   rank |-> 0, next |-> modules, seen |-> {}, kids |-> 0, closing |-> FALSE]

Goto(frame) == stack' = <<frame>> \o Tail(stack)

(* The flags of the rules that match object o of fs.                        *)
Matched(fs, o, rules) ==
  LET parent == fs[o].parent
      given(flagsOf) == UNION {flagsOf[r] : r \in rules}
  IN [i \in DOMAIN fs |->
       [fs[i] EXCEPT !.flags = @ \cup (IF i = o THEN given(RuleFlags) ELSE {})
                                 \cup (IF i = parent THEN given(ParentFlags) ELSE {})]]

(* The object to scan has been added to the result, and the call for it has *)
(* matched the rules.                                                       *)
Init ==
  /\ LET root == <<NewObject(0, "none", StartDepth)>>
     IN \E named \in Requests :
          IF named = <<>>
          THEN \E rules \in SUBSET FirstRules :
                 /\ files = Matched(root, 1, rules)
                 /\ stack = <<FirstFrame(1, StartDepth, rules)>>
          ELSE files = root /\ stack = <<ExtFrame(1, StartDepth, named)>>
  /\ raised = "none"
  /\ late = FALSE
  /\ outcome = "running"

Running == stack # <<>> /\ raised = "none"

TooDeep(f) == f.pass # "ext" /\ MaxDepth > 0 /\ f.depth > MaxDepth

---------------------------------------------------------------------------
(* The call f with the modules of rule r ahead.                             *)
Taken(f, r) == [f EXCEPT !.queue = @ \ {r}, !.rank = Priority[r], !.next = ScanModules[r]]

(* _process_module_queue up to the modules of the next rule.  Rules of one  *)
(* priority come in any order: the queue compares generators next.          *)
(* A slip: in whatever order the rules matched.                             *)
NextRuleAny ==
  /\ Running
  /\ Top.next = <<>> /\ Top.kids = 0 /\ ~TooDeep(Top) /\ ~Top.closing
  /\ \E r \in Top.queue : Goto(Taken(Top, r))
  /\ UNCHANGED <<files, raised, late, outcome>>

NextRule ==
  /\ Running
  /\ Top.next = <<>> /\ Top.kids = 0 /\ ~TooDeep(Top) /\ ~Top.closing
  /\ \E r \in Top.queue :
       /\ \A s \in Top.queue : Priority[r] <= Priority[s]
       /\ Goto(Taken(Top, r))
  /\ UNCHANGED <<files, raised, late, outcome>>

MayRun(f) ==
  /\ f.next # <<>> /\ f.kids = 0
  /\ Head(f.next) \notin Broken
  /\ f.pass = "ext" \/ Head(f.next) \notin f.seen

(* The call f after its next module, which has extracted kids.              *)
After(f, kids) == [f EXCEPT !.next = Tail(@), !.seen = @ \cup {Head(f.next)}, !.kids = kids]

(* A slip: a module passed over is looked at again.                         *)
SkipModuleStay ==
  /\ Running
  /\ Top.next # <<>> /\ Top.kids = 0 /\ ~MayRun(Top)
  /\ Goto([Top EXCEPT !.seen = @ \cup {Head(Top.next)}])
  /\ UNCHANGED <<files, raised, late, outcome>>

(* A module is passed over that has been run in this pass, or is broken.    *)
SkipModule ==
  /\ Running
  /\ Top.next # <<>> /\ Top.kids = 0 /\ ~MayRun(Top)
  /\ Goto(After(Top, 0))
  /\ UNCHANGED <<files, raised, late, outcome>>

(* moduleMetadata of DISPOSITIONER: addMetadata keeps what is stored first  *)
(* as it is, and makes a list of it when something is stored again.         *)
Dispositions(o) == {i \in DOMAIN files[o].ran : files[o].ran[i].stored # {}}
Disposition(o) == UNION UNION {files[o].ran[i].stored : i \in Dispositions(o)}
Collected(o) == Cardinality(Dispositions(o)) = 1

(* A slip: the flags of the children themselves, not those they collected.  *)
RollUpChildFlags(o) ==
  files[o].flags \cup UNION {files[k].flags : k \in Children(o)}

(* _rollupToMe: the flags of the object, and those that its children have   *)
(* collected.  A child without that metadata counts for nothing, and so     *)
(* does one whose metadata is a list.                                       *)
RollUp(o) ==
  files[o].flags
    \cup UNION {Disposition(k) : k \in {c \in Children(o) : Collected(c)}}

Entry(kids, stored) ==
  [pass |-> Top.pass, rank |-> Top.rank, module |-> Head(Top.next), kids |-> kids,
   stored |-> stored, late |-> late]

(* What the module leaves at its object: its entry in scanModules,          *)
(* metadata, flags.                                                         *)
WithEntry(entry, flags) ==
  [files EXCEPT ![This].ran = Append(@, entry), ![This].flags = @ \cup flags]

Record(kids, stored, flags) == files' = WithEntry(Entry(kids, stored), flags)

Pending == FoldSeq(LAMBDA f, n : n + f.kids, 0, stack)

(* A slip: the time is looked at only by the timer.                         *)
TimeUpNever(f, over) == FALSE

(* earlyQuitTime is handed down in the first pass only.                     *)
TimeUp(f, over) == f.pass = "first" /\ over

(* The module comes to an end, with the objects it has extracted or, for    *)
(* DISPOSITIONER, with the flags stored.  It may have failed, exceeded its  *)
(* own time (nothing is extracted or stored then), or swallowed the timer   *)
(* of the scan.                                                             *)
RunModule ==
  /\ Running
  /\ MayRun(Top)
  /\ \E kids \in 0 .. MaxKids, flags \in {{}, {"module_timeout"}},
        stored \in {{}, {RollUp(This)}} :
       /\ Len(files) + Pending + kids <= MaxObjects
       /\ flags # {} => kids = 0 /\ stored = {}
       /\ Head(Top.next) \notin Exploders => kids = 0 /\ late' = late
       /\ Head(Top.next) # Dispositioner => stored = {}
       /\ late' \in {late, TRUE}
       /\ IF TimeUp(Top, late')
          THEN /\ Record(0, stored, flags)
               /\ raised' = "scan_timeout"
               /\ UNCHANGED stack
          ELSE /\ Record(kids, stored, flags)
               /\ Goto(After(Top, kids))
               /\ UNCHANGED raised
  /\ UNCHANGED outcome

(* The timer of the scan fires once.  A scan whose root names its modules   *)
(* leaves its depth as it is, and at depth 0 each child it dispatches runs  *)
(* under a timer of its own besides.                                        *)
TimerLeft == ~late \/ (StartDepth = 0 /\ Len(stack) > 1 /\ Last(stack).pass = "ext")

(* The timer fires, or the process is told to shut down: in a module, or    *)
(* between two.                                                             *)
Interrupt ==
  /\ Running
  /\ \E exception \in {"scan_timeout", "quit"}, inModule \in BOOLEAN :
       /\ exception = "scan_timeout" => TimerLeft
       /\ raised' = exception
       /\ IF inModule
          THEN MayRun(Top) /\ Record(0, {}, IF exception = "quit" THEN {"quit_scan"} ELSE {})
          ELSE UNCHANGED files
  /\ UNCHANGED <<stack, late, outcome>>

(* A slip: a loop that runs once too often.                                 *)
HasChildEver(f) == f.kids >= 0

HasChild(f) == f.kids > 0

(* The next object the module has extracted is added to the result and      *)
(* matched against the rules.  The timer may fire in the matching, or the   *)
(* matching fail: neither is handled by the call for the new object.        *)
DispatchChild ==
  /\ Running
  /\ HasChild(Top)
  /\ LET rest == [Top EXCEPT !.kids = @ - 1]
         grown == Append(files, NewObject(This, Top.pass, Top.depth))
     IN \/ /\ \E rules \in SUBSET FirstRules :
                /\ stack' = <<FirstFrame(Len(grown), Top.depth, rules), rest>> \o Tail(stack)
                /\ files' = Matched(grown, Len(grown), rules)
           /\ UNCHANGED raised
        \/ /\ Goto(rest)
           /\ files' = grown
           /\ \/ raised' = "error"
              \/ TimerLeft /\ raised' = "scan_timeout"
  /\ UNCHANGED <<late, outcome>>

QueueDone == Top.next = <<>> /\ Top.kids = 0 /\ (Top.queue = {} \/ TooDeep(Top))

NoteDepth(o) ==
  IF TooDeep(Top) THEN [files EXCEPT ![o].flags = @ \cup {"max_depth_exceeded"}] ELSE files

(* _conditional_scan.  Failing to match the rules is logged, no more.       *)
SecondPass ==
  /\ Running
  /\ Top.pass = "first" /\ ~Top.closing /\ QueueDone
  /\ \E rules \in SUBSET SecondRules :
       /\ files' = Matched(NoteDepth(This), This, rules)
       /\ stack' = (IF rules = {} THEN <<>> ELSE <<SecondFrame(Top, rules)>>)
                     \o <<[Top EXCEPT !.closing = TRUE]>> \o Tail(stack)
  /\ UNCHANGED <<raised, late, outcome>>

(* A call returns.                                                          *)
Return ==
  /\ Running
  /\ IF Top.pass = "first" THEN Top.closing ELSE QueueDone
  /\ stack' = Tail(stack)
  /\ files' = IF Top.pass = "second"
              THEN NoteDepth(This)
              ELSE [files EXCEPT ![This].state = "done"]
  /\ outcome' = IF Len(stack) = 1 THEN "none" ELSE outcome
  /\ UNCHANGED <<raised, late>>

---------------------------------------------------------------------------
(* A slip: only the root object is given the flag.                          *)
MarkRoot(o) == [files[o] EXCEPT !.state = "cut",
                                !.flags = IF raised = "scan_timeout" /\ IsRoot(o)
                                          THEN @ \cup {"scan_timeout"} ELSE @]

Mark(o) == [files[o] EXCEPT !.state = "cut",
                            !.flags = IF raised = "scan_timeout"
                                      THEN @ \cup {"scan_timeout"} ELSE @]

(* A slip: every call swallows it.                                          *)
ContainedAnywhere(f) == raised = "scan_timeout"

(* The handler of a scan timeout swallows it at depth 0 only, and the depth *)
(* of a first pass has grown by then: only the "ext" call of a root object  *)
(* does.                                                                    *)
Contained(f) == raised = "scan_timeout" /\ f.pass = "ext"

(* The exception leaves the present call and those around it, up to one     *)
(* that swallows it.                                                        *)
Unwind ==
  /\ stack # <<>>
  /\ raised # "none"
  /\ \E n \in DOMAIN stack :
       /\ Contained(stack[n]) \/ n = Len(stack)
       /\ \A i \in 1 .. n - 1 : ~Contained(stack[i])
       /\ stack' = SubSeq(stack, n + 1, Len(stack))
       /\ LET cut == {stack[i].object : i \in {j \in 1 .. n : stack[j].pass # "second"}}
          IN files' = [o \in DOMAIN files |-> IF o \in cut THEN Mark(o) ELSE files[o]]
       /\ raised' = IF Contained(stack[n]) THEN "none" ELSE raised
       /\ outcome' = IF n < Len(stack) THEN outcome ELSE raised'
  /\ UNCHANGED late

Proceed ==
  \/ NextRule
  \/ SkipModule
  \/ RunModule
  \/ DispatchChild
  \/ SecondPass
  \/ Return
  \/ Unwind

Next == Proceed \/ Interrupt

Spec == Init /\ [][Next]_vars

(* The program runs; modules that hang are ended by their own timer.  The   *)
(* timer of the scan and the signal to shut down need never come.           *)
FairSpec == Spec /\ WF_vars(Proceed)

---------------------------------------------------------------------------
(* How many objects the modules run on o in these passes extracted.         *)
Extracted(o, passes) ==
  Cardinality(UNION {{i} \X (1 .. files[o].ran[i].kids) :
    i \in {j \in DOMAIN files[o].ran : files[o].ran[j].pass \in passes}})

(* The depth of an object is that of its parent and one, except for what is *)
(* extracted by modules that the caller named, which counts as lying beside *)
(* its parent.  No object lies deeper than maxdepth; on one that lies at it *)
(* no module of a rule runs, in either pass, and its result says so.        *)
DepthLimit ==
  /\ \A o \in DOMAIN files :
       files[o].depth = IF files[o].parent = 0 THEN StartDepth
                        ELSE IF files[o].pass = "ext" THEN files[files[o].parent].depth
                        ELSE files[files[o].parent].depth + 1
  /\ MaxDepth > 0 /\ StartDepth <= MaxDepth => \A o \in DOMAIN files :
       /\ files[o].depth <= MaxDepth
       /\ (\E i \in DOMAIN files[o].ran : files[o].ran[i].pass # "ext")
            => files[o].depth < MaxDepth
       /\ files[o].parent # 0 /\ files[o].state = "done" /\ files[o].depth = MaxDepth
            => "max_depth_exceeded" \in files[o].flags

(* On one object, the modules of the second pass run after those of the     *)
(* first, within a pass those of a rule with a lower priority number        *)
(* first, and none twice in a pass.                                         *)
RunsInOrder ==
  \A o \in DOMAIN files : \A j \in DOMAIN files[o].ran : \A i \in 1 .. j - 1 :
    LET a == files[o].ran[i]
        b == files[o].ran[j]
    IN /\ a.pass = "second" => b.pass = "second"
       /\ a.pass = b.pass => a.rank <= b.rank
       /\ a.pass = b.pass /\ a.pass # "ext" => a.module # b.module

(* Of an object whose scan has come to its end every object extracted has   *)
(* been scanned to its end; of one in its second pass (conditional-         *)
(* dispatch.yara relies on it) every object the first pass extracted.       *)
ExtractedScanned ==
  /\ \A o \in DOMAIN files : files[o].state = "done" =>
       /\ Cardinality(Children(o)) = Extracted(o, Passes)
       /\ \A k \in Children(o) : files[k].state = "done"
  /\ \A i \in DOMAIN stack : stack[i].closing =>
       LET first == {k \in Children(stack[i].object) : files[k].pass = "first"}
       IN /\ Cardinality(first) = Extracted(stack[i].object, {"first"})
          /\ \A k \in first : files[k].state = "done"

(* When the time of the scan is over, the result tells of every object on   *)
(* which modules ran that its scan was cut short, and of no other.          *)
TimeoutMarked ==
  /\ outcome \in {"none", "scan_timeout"} => \A o \in DOMAIN files :
       files[o].state # "done" /\ files[o].ran # <<>> => "scan_timeout" \in files[o].flags
  /\ \A o \in DOMAIN files : "scan_timeout" \in files[o].flags => files[o].state = "cut"

(* However the timer was swallowed, at most one module of a first pass      *)
(* starts once the time of the scan is over (a second pass goes on).        *)
LateStarts ==
  Cardinality(UNION {{<<o, i>> : i \in {j \in DOMAIN files[o].ran :
    files[o].ran[j].late /\ files[o].ran[j].pass = "first"}} : o \in DOMAIN files}) <= 1

(* What DISPOSITIONER has collected on o is the last word on it: nothing    *)
(* ran there afterwards, nor did the rules of the second pass match.        *)
Settled(o) ==
  /\ Collected(o)
  /\ Last(files[o].ran).stored # {} /\ Last(files[o].ran).pass # "first"

(* o, and all that lies in it by way of objects that have collected: the    *)
(* smallest set with o and with those children of each of its members.      *)
Reporting(o) == {k \in Children(o) : Collected(k)}
Within(o) ==
  {d \in DOMAIN files : \A S \in SUBSET DOMAIN files :
     o \in S /\ (\A s \in S : Reporting(s) \subseteq S) => d \in S}

(* flagRollup of clientLib.py, of some of the objects of a result.          *)
FlagRollup(objects) == UNION {files[o].flags : o \in objects}

(* DISPOSITIONER "takes all of the flags from the current object as well as *)
(* any descendent objects" (disposition.yara): all those, at whatever depth *)
(* they lie, that it has been run on in its turn, and no others; as long as *)
(* it is the last of their modules, once, and not in the first pass.        *)
VerdictCoversTree ==
  \A o \in DOMAIN files :
    files[o].state = "done" /\ (\A p \in Within(o) : Settled(p))
      => Disposition(o) = FlagRollup(Within(o))

(* A scan comes to an end: no call gets stuck, and unwinding gets to the    *)
(* root (that recursion ends is DepthLimit).                                *)
ScanEnds == <>(stack = <<>>)

(* "If not the root object, raise the exception to halt the parent scan"    *)
(* (dispatch.py:368): the call for the root object ends normally.           *)
RootContainsTimeout == outcome # "scan_timeout"
===========================================================================
