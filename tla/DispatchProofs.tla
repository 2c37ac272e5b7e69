-------------------------- MODULE DispatchProofs --------------------------
(* What Dispatch.tla says of every scan, proved for all rules, modules,     *)
(* priorities, limits and requests: the tree of objects, the depth limit,   *)
(* the order of modules, the marks of a timeout and the completeness of     *)
(* what is reported as done.                                                *)
EXTENDS Dispatch, SeqLemmas, TLAPS

---------------------------------------------------------------------------
(* The objects of the result fs form a tree whose root is the first.        *)
Placed(fs, o) ==
  /\ o = 1 => fs[o].parent = 0 /\ fs[o].depth = StartDepth
  /\ o # 1 => /\ fs[o].pass \in Passes
              /\ fs[o].parent \in DOMAIN fs /\ fs[o].parent < o
              /\ fs[o].pass = "ext" => fs[o].depth = fs[fs[o].parent].depth
              /\ fs[o].pass # "ext" => fs[o].depth = fs[fs[o].parent].depth + 1

Tree == files # <<>> /\ \A o \in DOMAIN files : Placed(files, o)

(* One call: what it works on, and what it may still do at its depth.       *)
Sound(fs, f) ==
  /\ f.object \in DOMAIN fs
  /\ fs[f.object].state = "open"
  /\ f.pass = "ext" => /\ f.object = 1 /\ f.depth = fs[f.object].depth
                       /\ f.queue = {} /\ f.rank = 0
  /\ f.pass # "ext" => f.depth = fs[f.object].depth + 1
  /\ f.pass # "ext" /\ (f.next # <<>> \/ f.kids > 0) => ~TooDeep(f)
  /\ f.closing => f.pass = "first" /\ f.next = <<>> /\ f.kids = 0
  /\ f.closing /\ TooDeep(f) => "max_depth_exceeded" \in fs[f.object].flags
  /\ \A r \in f.queue : f.rank <= Priority[r]

(* The call f made by the call g: a second pass by the first pass of the    *)
(* same object, any other for an object that g has extracted.               *)
Link(fs, f, g) ==
  /\ f.pass # "ext"
  /\ f.pass = "second" => f.object = g.object /\ g.closing
  /\ f.pass = "first" => /\ fs[f.object].parent = g.object
                         /\ fs[f.object].pass = g.pass
                         /\ ~g.closing

Calls ==
  /\ \A i \in DOMAIN stack : Sound(files, stack[i])
  /\ \A i \in DOMAIN stack : i + 1 \in DOMAIN stack => Link(files, stack[i], stack[i + 1])
  /\ stack # <<>> => stack[Len(stack)].pass # "second"
  /\ \A i, j \in DOMAIN stack :
       i < j /\ stack[i].object = stack[j].object => j = i + 1 /\ stack[i].pass = "second"

(* What has run on the object of a call that may run more.                  *)
Fit(ran, f) ==
  ~f.closing => \A i \in DOMAIN ran :
    /\ f.pass = "first" => ran[i].pass = "first"
    /\ f.pass = "ext" => ran[i].pass = "ext" /\ ran[i].rank = 0
    /\ f.pass = "second" => ran[i].pass # "ext"
    /\ ran[i].pass = f.pass => ran[i].rank <= f.rank
    /\ ran[i].pass = f.pass /\ f.pass # "ext" => ran[i].module \in f.seen

Fitting ==
  raised = "none" => \A i \in DOMAIN stack : Fit(files[stack[i].object].ran, stack[i])

(* While calls are under way nothing has been cut short, and the result is  *)
(* not known; objects without a call have not begun or are through.         *)
Course ==
  /\ stack # <<>> => outcome = "running" /\ \A o \in DOMAIN files : files[o].state # "cut"
  /\ \A o \in DOMAIN files :
       files[o].state = "open" /\ (\A i \in DOMAIN stack : stack[i].object # o)
         => files[o].ran = <<>>
  /\ outcome \in {"none", "scan_timeout"} => \A o \in DOMAIN files :
       files[o].state = "cut" => "scan_timeout" \in files[o].flags
  /\ \A o \in DOMAIN files : "scan_timeout" \in files[o].flags => files[o].state = "cut"

(* The entries LateStarts counts.                                           *)
LateEntries(fs) ==
  UNION {{<<o, i>> : i \in {j \in DOMAIN fs[o].ran :
    fs[o].ran[j].late /\ fs[o].ran[j].pass = "first"}} : o \in DOMAIN fs}

Lateness ==
  /\ stack # <<>> /\ raised = "none" => LateEntries(files) = {}
  /\ LateStarts

(* Objects that came of o in certain passes, and what the modules run on it *)
(* in these have given; n of them are still to be dispatched.               *)
Kids(fs, o, passes) == {k \in DOMAIN fs : fs[k].parent = o /\ fs[k].pass \in passes}
Yields(ran, passes) ==
  UNION {{i} \X (1 .. ran[i].kids) : i \in {j \in DOMAIN ran : ran[j].pass \in passes}}
Balanced(fs, o, passes, n) ==
  Cardinality(Kids(fs, o, passes)) + n = Cardinality(Yields(fs[o].ran, passes))

Accounts ==
  /\ \A o \in DOMAIN files : files[o].state = "done" =>
       /\ Balanced(files, o, Passes, 0)
       /\ \A k \in Kids(files, o, Passes) : files[k].state = "done"
  /\ \A i \in DOMAIN stack : LET f == stack[i] IN
       /\ ~f.closing => Balanced(files, f.object, Passes, f.kids)
       /\ f.closing /\ (i = 1 \/ stack[i - 1].pass # "second")
            => Balanced(files, f.object, Passes, 0)
       /\ f.pass = "first" => Balanced(files, f.object, {"first"}, f.kids)
       /\ f.pass = "second" => Balanced(files, f.object, {"first"}, 0)
  /\ \A i \in DOMAIN stack : \A k \in Kids(files, stack[i].object, Passes) :
       \/ files[k].state = "done"
       \/ \E j \in 1 .. i - 1 : stack[j].object = k
       \/ /\ raised # "none" /\ ~stack[1].closing
          /\ stack[1].object = stack[i].object /\ files[k].pass = stack[1].pass

IInv ==
  TypeOK /\ Tree /\ Calls /\ Fitting /\ Course /\ Lateness /\ Accounts
  /\ RunsInOrder /\ DepthLimit

---------------------------------------------------------------------------
(* Lists of calls: the present call replaced, one above it, the last one    *)
(* left.                                                                    *)
LEMMA Replaced ==
  ASSUME NEW S, NEW s \in Seq(S), s # <<>>, NEW a \in S, NEW t, t = <<a>> \o Tail(s)
  PROVE  /\ t \in Seq(S) /\ t # <<>> /\ Len(t) = Len(s) /\ DOMAIN t = DOMAIN s
         /\ t[1] = a /\ \A i \in DOMAIN s : i # 1 => t[i] = s[i]
<1>1. Tail(s) \in Seq(S) /\ Len(Tail(s)) = Len(s) - 1 /\ Len(s) \in Nat \ {0}
  OBVIOUS
<1>2. \A i \in 1 .. Len(s) - 1 : Tail(s)[i] = s[i + 1]
  OBVIOUS
<1>3. <<a>> \in Seq(S) /\ Len(<<a>>) = 1 /\ <<a>>[1] = a
  OBVIOUS
<1>4. t \in Seq(S) /\ Len(t) = Len(s)
  BY <1>1, <1>3
<1>5. t[1] = a
  BY <1>1, <1>3
<1>6. \A i \in 2 .. Len(s) : t[i] = s[i]
  <2> SUFFICES ASSUME NEW i \in 2 .. Len(s)
               PROVE  t[i] = s[i]
    OBVIOUS
  <2>1. t[i] = Tail(s)[i - 1] /\ i - 1 \in 1 .. Len(s) - 1
    BY <1>1, <1>3
  <2> QED BY <1>2, <2>1
<1> QED BY <1>1, <1>4, <1>5, <1>6

LEMMA Pushed ==
  ASSUME NEW S, NEW s \in Seq(S), s # <<>>, NEW a \in S, NEW b \in S,
         NEW t, t = <<a, b>> \o Tail(s)
  PROVE  /\ t \in Seq(S) /\ t # <<>> /\ Len(t) = Len(s) + 1 /\ DOMAIN t = 1 .. Len(s) + 1
         /\ t[1] = a /\ t[2] = b /\ \A i \in 3 .. Len(s) + 1 : t[i] = s[i - 1]
<1>1. Tail(s) \in Seq(S) /\ Len(Tail(s)) = Len(s) - 1 /\ Len(s) \in Nat \ {0}
  OBVIOUS
<1>2. \A i \in 1 .. Len(s) - 1 : Tail(s)[i] = s[i + 1]
  OBVIOUS
<1>3. <<a, b>> \in Seq(S) /\ Len(<<a, b>>) = 2 /\ <<a, b>>[1] = a /\ <<a, b>>[2] = b
  OBVIOUS
<1>4. t \in Seq(S) /\ Len(t) = Len(s) + 1
  BY <1>1, <1>3
<1>5. t[1] = a /\ t[2] = b
  BY <1>1, <1>3
<1>6. \A i \in 3 .. Len(s) + 1 : t[i] = s[i - 1]
  <2> SUFFICES ASSUME NEW i \in 3 .. Len(s) + 1
               PROVE  t[i] = s[i - 1]
    OBVIOUS
  <2>1. t[i] = Tail(s)[i - 2] /\ i - 2 \in 1 .. Len(s) - 1
    BY <1>1, <1>3
  <2> QED BY <1>2, <2>1
<1> QED BY <1>1, <1>4, <1>5, <1>6

LEMMA Popped ==
  ASSUME NEW S, NEW s \in Seq(S), s # <<>>, NEW t, t = Tail(s)
  PROVE  /\ t \in Seq(S) /\ Len(t) = Len(s) - 1 /\ DOMAIN t = 1 .. Len(s) - 1
         /\ \A i \in DOMAIN t : t[i] = s[i + 1]
         /\ Len(s) \in Nat \ {0} /\ (t = <<>> <=> Len(s) = 1)
<1>1. t \in Seq(S) /\ Len(t) = Len(s) - 1 /\ Len(s) \in Nat \ {0}
  OBVIOUS
<1>2. \A i \in 1 .. Len(s) - 1 : t[i] = s[i + 1]
  OBVIOUS
<1>3. t = <<>> <=> Len(t) = 0
  <2>1. t \in Seq(S)
    BY <1>1
  <2> QED BY <2>1, EmptySeq
<1> QED BY <1>1, <1>2, <1>3

LEMMA FirstOf ==
  ASSUME NEW S, NEW s \in Seq(S), s # <<>>
  PROVE  /\ 1 \in DOMAIN s /\ s[1] \in S /\ Len(s) \in DOMAIN s
         /\ DOMAIN s = 1 .. Len(s) /\ Len(s) \in Nat \ {0}
OBVIOUS

---------------------------------------------------------------------------
(* An element of an object's ran.                                           *)
Entries == [pass : Passes, rank : Nat, module : Modules, kids : 0 .. MaxKids,
            stored : SUBSET SUBSET Flags, late : BOOLEAN]

(* gs is the result fs after a step: objects are added behind, those there  *)
(* stay where they are in the tree, and the dispatcher takes no flag away,  *)
(* nor does anything but a timeout give the mark of one.                    *)
Grows(fs, gs) ==
  /\ DOMAIN fs \subseteq DOMAIN gs
  /\ \A o \in DOMAIN fs :
       /\ gs[o].parent = fs[o].parent /\ gs[o].pass = fs[o].pass /\ gs[o].depth = fs[o].depth
       /\ fs[o].flags \subseteq gs[o].flags
       /\ "scan_timeout" \in gs[o].flags => "scan_timeout" \in fs[o].flags

(* Only flags differ.                                                       *)
Flagged(fs, gs) ==
  /\ gs \in Seq(Object) /\ DOMAIN gs = DOMAIN fs /\ Len(gs) = Len(fs)
  /\ Grows(fs, gs)
  /\ \A o \in DOMAIN fs : gs[o].ran = fs[o].ran /\ gs[o].state = fs[o].state

LEMMA FunctionIsSeq ==
  ASSUME NEW S, NEW n \in Nat, NEW f, DOMAIN f = 1 .. n, f = [i \in DOMAIN f |-> f[i]],
         \A i \in 1 .. n : f[i] \in S
  PROVE  f \in Seq(S) /\ Len(f) = n
<1>1. f \in [1 .. n -> S]
  OBVIOUS
<1> QED BY <1>1

(* An object that is given flags.                                           *)
WithFlags(x, F) == [x EXCEPT !.flags = @ \cup F]

LEMMA MoreFlags ==
  ASSUME NEW x \in Object, NEW F \in SUBSET Flags, NEW y, y = WithFlags(x, F)
  PROVE  /\ y \in Object /\ y.flags = x.flags \cup F
         /\ y.parent = x.parent /\ y.pass = x.pass /\ y.depth = x.depth
         /\ y.ran = x.ran /\ y.state = x.state
BY DEF Object, WithFlags

LEMMA FlaggedByMore ==
  ASSUME NEW fs \in Seq(Object), NEW gs, NEW more,
         gs = [i \in DOMAIN gs |-> gs[i]], DOMAIN gs = DOMAIN fs,
         \A i \in DOMAIN fs : /\ more[i] \subseteq Flags /\ "scan_timeout" \notin more[i]
                              /\ gs[i] = WithFlags(fs[i], more[i])
  PROVE  /\ Flagged(fs, gs)
         /\ \A i \in DOMAIN fs : gs[i].flags = fs[i].flags \cup more[i]
<1>1. \A i \in DOMAIN fs :
        /\ gs[i] \in Object /\ gs[i].flags = fs[i].flags \cup more[i]
        /\ gs[i].parent = fs[i].parent /\ gs[i].pass = fs[i].pass /\ gs[i].depth = fs[i].depth
        /\ gs[i].ran = fs[i].ran /\ gs[i].state = fs[i].state
  <2> SUFFICES ASSUME NEW i \in DOMAIN fs
               PROVE  /\ gs[i] \in Object /\ gs[i].flags = fs[i].flags \cup more[i]
                      /\ gs[i].parent = fs[i].parent /\ gs[i].pass = fs[i].pass
                      /\ gs[i].depth = fs[i].depth
                      /\ gs[i].ran = fs[i].ran /\ gs[i].state = fs[i].state
    OBVIOUS
  <2> DEFINE x == fs[i]
             F == more[i]
             y == gs[i]
  <2>1. x \in Object /\ F \in SUBSET Flags /\ y = WithFlags(x, F)
    OBVIOUS
  <2> HIDE DEF x, F, y
  <2>2. /\ y \in Object /\ y.flags = x.flags \cup F
        /\ y.parent = x.parent /\ y.pass = x.pass /\ y.depth = x.depth
        /\ y.ran = x.ran /\ y.state = x.state
    BY <2>1, MoreFlags
  <2> QED BY <2>2 DEF x, F, y
<1>2. DOMAIN fs = 1 .. Len(fs) /\ Len(fs) \in Nat
  OBVIOUS
<1>3. gs \in Seq(Object) /\ Len(gs) = Len(fs)
  BY <1>1, <1>2, FunctionIsSeq
<1> QED BY <1>1, <1>3 DEF Flagged, Grows

LEMMA MatchedType ==
  ASSUME NEW fs \in Seq(Object), NEW o \in DOMAIN fs, NEW rules \in SUBSET Rules
  PROVE  Flagged(fs, Matched(fs, o, rules))
<1> DEFINE given(flagsOf) == UNION {flagsOf[r] : r \in rules}
           more == [i \in DOMAIN fs |-> (IF i = o THEN given(RuleFlags) ELSE {})
                                          \cup (IF i = fs[o].parent THEN given(ParentFlags) ELSE {})]
           gs == Matched(fs, o, rules)
<1>1. gs = [i \in DOMAIN fs |-> [fs[i] EXCEPT !.flags = @ \cup (IF i = o THEN given(RuleFlags) ELSE {})
                                 \cup (IF i = fs[o].parent THEN given(ParentFlags) ELSE {})]]
  BY DEF Matched
<1>2. \A i \in DOMAIN fs : more[i] \subseteq Flags /\ "scan_timeout" \notin more[i]
  <2>1. /\ given(RuleFlags) \subseteq Flags /\ given(ParentFlags) \subseteq Flags
        /\ "scan_timeout" \notin given(RuleFlags) /\ "scan_timeout" \notin given(ParentFlags)
    BY FlagsAssumption DEF Flags, OwnFlags
  <2> QED BY <2>1
<1>3. \A i \in DOMAIN fs : gs[i] = WithFlags(fs[i], more[i])
  <2> SUFFICES ASSUME NEW i \in DOMAIN fs
               PROVE  gs[i] = WithFlags(fs[i], more[i])
    OBVIOUS
  <2>1. gs[i] = [fs[i] EXCEPT !.flags = @ \cup (IF i = o THEN given(RuleFlags) ELSE {})
                                 \cup (IF i = fs[o].parent THEN given(ParentFlags) ELSE {})]
    BY <1>1
  <2>2. fs[i].flags \cup (IF i = o THEN given(RuleFlags) ELSE {})
                    \cup (IF i = fs[o].parent THEN given(ParentFlags) ELSE {})
          = fs[i].flags \cup more[i]
    OBVIOUS
  <2> QED BY <2>1, <2>2 DEF WithFlags
<1>4. DOMAIN gs = DOMAIN fs /\ gs = [i \in DOMAIN gs |-> gs[i]]
  BY <1>1
<1> HIDE DEF more, gs
<1> QED BY <1>2, <1>3, <1>4, FlaggedByMore DEF gs

LEMMA NoteDepthType ==
  ASSUME files \in Seq(Object), NEW o \in DOMAIN files
  PROVE  /\ Flagged(files, NoteDepth(o))
         /\ TooDeep(Top) => "max_depth_exceeded" \in NoteDepth(o)[o].flags
<1>1. CASE TooDeep(Top)
  <2> DEFINE more == [i \in DOMAIN files |-> IF i = o THEN {"max_depth_exceeded"} ELSE {}]
             gs == [files EXCEPT ![o].flags = @ \cup {"max_depth_exceeded"}]
  <2>1. NoteDepth(o) = gs
    BY <1>1 DEF NoteDepth
  <2>2. \A i \in DOMAIN files : files[i] = WithFlags(files[i], {})
    <3>1. \A i \in DOMAIN files : files[i] \in Object
      OBVIOUS
    <3>2. \A x \in Object : x = WithFlags(x, {})
      BY DEF Object, WithFlags
    <3> QED BY <3>1, <3>2
  <2>3. \A i \in DOMAIN files : gs[i] = WithFlags(files[i], more[i])
    BY <2>2 DEF WithFlags
  <2>4. \A i \in DOMAIN files : more[i] \subseteq Flags /\ "scan_timeout" \notin more[i]
    BY DEF Flags, OwnFlags
  <2>5. DOMAIN gs = DOMAIN files /\ gs = [i \in DOMAIN gs |-> gs[i]]
    OBVIOUS
  <2>6. more[o] = {"max_depth_exceeded"}
    OBVIOUS
  <2> HIDE DEF more, gs
  <2> QED BY <2>1, <2>3, <2>4, <2>5, <2>6, FlaggedByMore
<1>2. CASE ~TooDeep(Top)
  BY <1>2 DEF NoteDepth, Flagged, Grows
<1> QED BY <1>1, <1>2

LEMMA FlaggedTwice ==
  ASSUME NEW fs, NEW gs, NEW hs, Flagged(fs, gs), Flagged(gs, hs)
  PROVE  Flagged(fs, hs)
BY DEF Flagged, Grows

---------------------------------------------------------------------------
(* What holds of one call and of two goes on holding while the result       *)
(* grows.                                                                   *)
LEMMA SoundKept ==
  ASSUME NEW fs, NEW gs, Grows(fs, gs), NEW f, Sound(fs, f), gs[f.object].state = "open"
  PROVE  Sound(gs, f)
BY DEF Sound, Grows

LEMMA LinkKept ==
  ASSUME NEW fs, NEW gs, Grows(fs, gs), NEW f, NEW g, f.object \in DOMAIN fs, Link(fs, f, g)
  PROVE  Link(gs, f, g)
BY DEF Link, Grows

LEMMA TreeSame ==
  ASSUME TypeOK, Tree, Grows(files, files'), DOMAIN files' = DOMAIN files, files' \in Seq(Object)
  PROVE  Tree'
<1>1. /\ DOMAIN files = 1 .. Len(files) /\ Len(files) \in Nat \ {0} /\ 1 \in DOMAIN files
  BY FirstOf DEF TypeOK, Tree
<1>2. files' # <<>>
  BY <1>1
<1>3. ASSUME NEW o \in DOMAIN files
      PROVE  Placed(files', o)
  <2>1. Placed(files, o) /\ DOMAIN files' = DOMAIN files
    BY DEF Tree
  <2> QED BY <2>1 DEF Placed, Grows
<1> QED BY <1>2, <1>3 DEF Tree

(* The present call goes on in place, as g.                                 *)
LEMMA CallsInPlace ==
  ASSUME TypeOK, Calls, stack # <<>>, Grows(files, files'),
         \A o \in DOMAIN files : files'[o].state = files[o].state,
         NEW g \in Frame, stack' = <<g>> \o Tail(stack),
         g.object = Top.object, g.pass = Top.pass, Sound(files', g)
  PROVE  Calls'
<1>1. /\ 1 \in DOMAIN stack /\ Len(stack) \in DOMAIN stack /\ DOMAIN stack = 1 .. Len(stack)
      /\ Len(stack) \in Nat \ {0}
  BY FirstOf DEF TypeOK
<1>2. /\ stack' # <<>> /\ Len(stack') = Len(stack) /\ DOMAIN stack' = DOMAIN stack
      /\ stack'[1] = g /\ \A i \in DOMAIN stack : i # 1 => stack'[i] = stack[i]
  BY Replaced DEF TypeOK
<1>3. \A i \in DOMAIN stack : /\ stack'[i].object = stack[i].object
                              /\ stack'[i].pass = stack[i].pass
  BY <1>2 DEF Top
<1>4. \A i \in DOMAIN stack : Sound(files', stack'[i])
  <2> SUFFICES ASSUME NEW i \in DOMAIN stack, i # 1
               PROVE  Sound(files', stack'[i])
    BY <1>2
  <2>1. Sound(files, stack[i]) /\ stack'[i] = stack[i]
    BY <1>2 DEF Calls
  <2>2. files'[stack[i].object].state = "open"
    BY <2>1 DEF Sound
  <2> QED BY <2>1, <2>2, SoundKept
<1>5. ASSUME NEW i \in DOMAIN stack, i + 1 \in DOMAIN stack
      PROVE  Link(files', stack'[i], stack'[i + 1])
  <2>1. Link(files, stack[i], stack[i + 1]) /\ stack[i].object \in DOMAIN files
    BY <1>5 DEF Calls, Sound
  <2>2. Link(files', stack[i], stack[i + 1])
    BY <2>1, LinkKept
  <2>3. i + 1 # 1 /\ stack'[i + 1] = stack[i + 1]
    BY <1>1, <1>2, <1>5
  <2> QED BY <1>3, <1>5, <2>2, <2>3 DEF Link
<1>6. stack'[Len(stack')].pass # "second"
  BY <1>1, <1>2, <1>3 DEF Calls
<1>7. \A i, j \in DOMAIN stack :
        i < j /\ stack'[i].object = stack'[j].object => j = i + 1 /\ stack'[i].pass = "second"
  BY <1>3 DEF Calls
<1> QED BY <1>2, <1>4, <1>5, <1>6, <1>7 DEF Calls

---------------------------------------------------------------------------
(* What modules have extracted, one entry later.                            *)
LEMMA YieldsFinite ==
  ASSUME NEW ran \in Seq(Entries), NEW P
  PROVE  IsFiniteSet(Yields(ran, P)) /\ Cardinality(Yields(ran, P)) \in Nat
<1>1. IsFiniteSet(1 .. Len(ran)) /\ IsFiniteSet(1 .. MaxKids)
  BY FS_Interval, BoundsAssumption
<1>2. IsFiniteSet((1 .. Len(ran)) \X (1 .. MaxKids))
  BY <1>1, FS_Product
<1>3. \A i \in DOMAIN ran : ran[i].kids \in 0 .. MaxKids
  <2>1. \A i \in DOMAIN ran : ran[i] \in Entries
    OBVIOUS
  <2>2. \A e \in Entries : e.kids \in 0 .. MaxKids
    BY DEF Entries
  <2> QED BY <2>1, <2>2
<1>4. Yields(ran, P) \subseteq (1 .. Len(ran)) \X (1 .. MaxKids)
  <2> SUFFICES ASSUME NEW i \in DOMAIN ran, NEW x \in {i} \X (1 .. ran[i].kids)
               PROVE  x \in (1 .. Len(ran)) \X (1 .. MaxKids)
    BY DEF Yields
  <2>1. 1 .. ran[i].kids \subseteq 1 .. MaxKids
    BY <1>3, BoundsAssumption
  <2>2. i \in 1 .. Len(ran)
    OBVIOUS
  <2> QED BY <2>1, <2>2
<1> QED BY <1>2, <1>4, FS_Subset, FS_CardinalityType

LEMMA YieldsAppend ==
  ASSUME NEW ran \in Seq(Entries), NEW e \in Entries, NEW P, NEW more, more = Append(ran, e)
  PROVE  /\ e.pass \in P => Cardinality(Yields(more, P)) = Cardinality(Yields(ran, P)) + e.kids
         /\ e.pass \notin P => Yields(more, P) = Yields(ran, P)
<1> DEFINE n == Len(ran)
<1>1. /\ more \in Seq(Entries) /\ n \in Nat /\ DOMAIN ran = 1 .. n /\ DOMAIN more = 1 .. n + 1
      /\ more[n + 1] = e /\ \A i \in 1 .. n : more[i] = ran[i]
  BY AppendAny
<1>2. CASE e.pass \notin P
  <2>1. {j \in DOMAIN more : more[j].pass \in P} = {j \in DOMAIN ran : ran[j].pass \in P}
    BY <1>1, <1>2
  <2>2. \A j \in DOMAIN ran : more[j] = ran[j]
    BY <1>1
  <2> QED BY <1>2, <2>1, <2>2 DEF Yields
<1>3. CASE e.pass \in P
  <2> DEFINE Y == Yields(ran, P)
             Z == {n + 1} \X (1 .. e.kids)
  <2>1. {j \in DOMAIN more : more[j].pass \in P} = {j \in DOMAIN ran : ran[j].pass \in P} \cup {n + 1}
    BY <1>1, <1>3
  <2>2. Yields(more, P) = Y \cup Z
    <3>1. \A i \in {j \in DOMAIN ran : ran[j].pass \in P} : more[i] = ran[i]
      BY <1>1
    <3> QED BY <1>1, <2>1, <3>1 DEF Yields
  <2>3. Y \cap Z = {}
    <3>1. \A x \in Y : x[1] \in 1 .. n
      BY <1>1 DEF Yields
    <3>2. \A x \in Z : x[1] = n + 1
      OBVIOUS
    <3> QED BY <1>1, <3>1, <3>2
  <2>4. IsFiniteSet(Y) /\ Cardinality(Y) \in Nat
    BY YieldsFinite
  <2>5. e.kids \in Nat
    BY BoundsAssumption DEF Entries
  <2>6. IsFiniteSet(Z) /\ Cardinality(Z) = e.kids
    <3>1. IsFiniteSet(1 .. e.kids) /\ Cardinality(1 .. e.kids) = e.kids
      <4>1. \A k \in Nat : IsFiniteSet(1 .. k) /\ Cardinality(1 .. k) = k
        <5> SUFFICES ASSUME NEW k \in Nat
                     PROVE  IsFiniteSet(1 .. k) /\ Cardinality(1 .. k) = k
          OBVIOUS
        <5>1. k \in Int /\ 1 \in Int
          OBVIOUS
        <5>2. \A a, b \in Int : IsFiniteSet(a .. b)
                               /\ Cardinality(a .. b) = IF a > b THEN 0 ELSE b - a + 1
          BY FS_Interval
        <5>3. IsFiniteSet(1 .. k) /\ Cardinality(1 .. k) = IF 1 > k THEN 0 ELSE k - 1 + 1
          BY <5>1, <5>2
        <5> QED BY <5>3
      <4> QED BY <2>5, <4>1
    <3>2. IsFiniteSet({n + 1}) /\ Cardinality({n + 1}) = 1
      BY FS_Singleton
    <3>3. IsFiniteSet(Z) /\ Cardinality(Z) = Cardinality({n + 1}) * Cardinality(1 .. e.kids)
      BY <3>1, <3>2, FS_Product
    <3> QED BY <2>5, <3>1, <3>2, <3>3
  <2> HIDE DEF Y, Z
  <2>7. Cardinality(Y \cup Z) = Cardinality(Y) + Cardinality(Z)
    BY <2>3, <2>4, <2>6, DisjointUnion
  <2> QED BY <1>3, <2>2, <2>6, <2>7 DEF Y
<1> QED BY <1>2, <1>3

LEMMA KidsFinite ==
  ASSUME NEW fs \in Seq(Object), NEW o, NEW P
  PROVE  IsFiniteSet(Kids(fs, o, P)) /\ Cardinality(Kids(fs, o, P)) \in Nat
<1>1. IsFiniteSet(1 .. Len(fs)) /\ Kids(fs, o, P) \in SUBSET (1 .. Len(fs))
  BY FS_Interval DEF Kids
<1> QED BY <1>1, FS_Subset, FS_CardinalityType

(* The account of an object while no objects are added.                     *)
LEMMA KidsSame ==
  ASSUME NEW fs, NEW gs, Grows(fs, gs), DOMAIN gs = DOMAIN fs, NEW o, NEW P
  PROVE  Kids(gs, o, P) = Kids(fs, o, P)
BY DEF Kids, Grows

LEMMA BalanceSame ==
  ASSUME NEW fs, NEW gs, Grows(fs, gs), DOMAIN gs = DOMAIN fs, NEW o, NEW P, NEW n,
         gs[o].ran = fs[o].ran, Balanced(fs, o, P, n)
  PROVE  Balanced(gs, o, P, n)
BY KidsSame DEF Balanced

LEMMA BalanceAppend ==
  ASSUME NEW fs \in Seq(Object), NEW gs, Grows(fs, gs), DOMAIN gs = DOMAIN fs, NEW o \in DOMAIN fs, NEW P,
         NEW e \in Entries, gs[o].ran = Append(fs[o].ran, e)
  PROVE  /\ e.pass \in P /\ Balanced(fs, o, P, 0) => Balanced(gs, o, P, e.kids)
         /\ \A n : e.pass \notin P /\ Balanced(fs, o, P, n) => Balanced(gs, o, P, n)
<1>1. fs[o].ran \in Seq(Entries) /\ e.kids \in Nat
  <2>1. fs[o] \in Object
    OBVIOUS
  <2>2. fs[o].ran \in Seq(Entries)
    BY <2>1 DEF Object, Entries
  <2>3. e.kids \in 0 .. MaxKids
    BY DEF Entries
  <2> QED BY <2>2, <2>3, BoundsAssumption
<1> DEFINE ran == fs[o].ran
           more == gs[o].ran
<1>2. ran \in Seq(Entries) /\ more = Append(ran, e)
  BY <1>1
<1> HIDE DEF ran, more
<1>3. /\ e.pass \in P => Cardinality(Yields(more, P)) = Cardinality(Yields(ran, P)) + e.kids
      /\ e.pass \notin P => Yields(more, P) = Yields(ran, P)
  BY <1>2, YieldsAppend
<1>4. Kids(gs, o, P) = Kids(fs, o, P) /\ Cardinality(Kids(fs, o, P)) \in Nat
  BY KidsSame, KidsFinite
<1>5. ASSUME e.pass \in P, Balanced(fs, o, P, 0)
      PROVE  Balanced(gs, o, P, e.kids)
  <2>1. Cardinality(Kids(fs, o, P)) + 0 = Cardinality(Yields(ran, P))
    BY <1>5 DEF Balanced, ran
  <2>2. Cardinality(Kids(gs, o, P)) + e.kids = Cardinality(Yields(more, P))
    BY <1>1, <1>3, <1>4, <1>5, <2>1
  <2> QED BY <2>2 DEF Balanced, more
<1>6. ASSUME NEW n, e.pass \notin P, Balanced(fs, o, P, n)
      PROVE  Balanced(gs, o, P, n)
  BY <1>3, <1>4, <1>6 DEF Balanced, ran, more
<1> QED BY <1>5, <1>6

---------------------------------------------------------------------------
(* The result after a module has left its entry e at object o.              *)
Recorded(fs, gs, o, e) ==
  /\ gs \in Seq(Object) /\ DOMAIN gs = DOMAIN fs
  /\ Grows(fs, gs)
  /\ \A k \in DOMAIN fs : gs[k].state = fs[k].state /\ (k # o => gs[k].ran = fs[k].ran)
  /\ gs[o].ran = Append(fs[o].ran, e)

(* A call on the object of the present one, but not the present one, is the *)
(* first pass that it is the second pass to.                                *)
LEMMA SameObject ==
  ASSUME TypeOK, Calls, NEW i \in DOMAIN stack, i # 1, stack[i].object = This
  PROVE  i = 2 /\ Top.pass = "second" /\ stack[i].closing
<1>1. 1 \in DOMAIN stack /\ DOMAIN stack = 1 .. Len(stack) /\ Len(stack) \in Nat
  BY DEF TypeOK
<1>2. 1 < i /\ stack[1].object = stack[i].object
  BY <1>1 DEF This, Top
<1>3. i = 1 + 1 /\ stack[1].pass = "second"
  BY <1>1, <1>2 DEF Calls
<1>4. Link(files, stack[1], stack[1 + 1])
  <2>1. \A j \in DOMAIN stack : j + 1 \in DOMAIN stack => Link(files, stack[j], stack[j + 1])
    BY DEF Calls
  <2> QED BY <1>1, <1>3, <2>1
<1> QED BY <1>3, <1>4 DEF Link, Top

(* How the accounts stand when the present call goes on in place, with or   *)
(* without an entry e for the module it has run.                            *)
LEMMA AccountsInPlace ==
  ASSUME TypeOK, Calls, Accounts, stack # <<>>, raised = "none",
         files' \in Seq(Object), Grows(files, files'), DOMAIN files' = DOMAIN files,
         \A o \in DOMAIN files : files'[o].state = files[o].state,
         \A o \in DOMAIN files : o # This => files'[o].ran = files[o].ran,
         NEW g \in Frame, stack' = <<g>> \o Tail(stack),
         g.object = Top.object, g.pass = Top.pass, Top.closing = FALSE, g.closing => g.kids = 0,
         \/ files'[This].ran = files[This].ran /\ g.kids = Top.kids
         \/ \E e \in Entries : /\ files'[This].ran = Append(files[This].ran, e)
                              /\ e.pass = Top.pass /\ Top.kids = 0 /\ g.kids = e.kids
  PROVE  Accounts'
<1>1. /\ 1 \in DOMAIN stack /\ DOMAIN stack = 1 .. Len(stack) /\ Len(stack) \in Nat \ {0}
      /\ stack[1] = Top
  BY FirstOf DEF TypeOK, Top
<1>2. /\ stack' # <<>> /\ Len(stack') = Len(stack) /\ DOMAIN stack' = DOMAIN stack
      /\ stack'[1] = g /\ \A i \in DOMAIN stack : i # 1 => stack'[i] = stack[i]
  BY Replaced DEF TypeOK
<1>3. \A i \in DOMAIN stack : /\ stack'[i].object = stack[i].object
                              /\ stack'[i].pass = stack[i].pass
  BY <1>1, <1>2
<1>4. \A i \in DOMAIN stack : stack[i].object \in DOMAIN files /\ files[stack[i].object].state = "open"
  <2>1. \A i \in DOMAIN stack : Sound(files, stack[i])
    BY SMTT(30) DEF Calls
  <2> QED BY <2>1 DEF Sound
<1>5. This \in DOMAIN files /\ files[This].state = "open"
  BY <1>1, <1>4 DEF This
<1>6. \A o, P : Kids(files', o, P) = Kids(files, o, P)
  BY KidsSame
<1>7. \A o \in DOMAIN files : \A P, n :
        files'[o].ran = files[o].ran /\ Balanced(files, o, P, n) => Balanced(files', o, P, n)
  BY <1>6 DEF Balanced
<1>8. \A k, o, P : k \in Kids(files, o, P) => k \in DOMAIN files
  BY DEF Kids
<1>9. ASSUME NEW o \in DOMAIN files, files'[o].state = "done"
      PROVE  /\ Balanced(files', o, Passes, 0)
             /\ \A k \in Kids(files', o, Passes) : files'[k].state = "done"
  <2>1. o # This /\ files[o].state = "done"
    BY <1>5, <1>9
  <2>2. /\ Balanced(files, o, Passes, 0)
        /\ \A k \in Kids(files, o, Passes) : files[k].state = "done"
    BY <2>1 DEF Accounts
  <2> QED BY <1>6, <1>7, <1>8, <2>1, <2>2
<1>10. /\ Balanced(files', g.object, Passes, g.kids)
       /\ g.pass = "first" => Balanced(files', g.object, {"first"}, g.kids)
       /\ g.pass = "second" => Balanced(files', g.object, {"first"}, 0)
  <2>1. /\ Balanced(files, This, Passes, Top.kids)
        /\ Top.pass = "first" => Balanced(files, This, {"first"}, Top.kids)
        /\ Top.pass = "second" => Balanced(files, This, {"first"}, 0)
    BY <1>1 DEF Accounts, This
  <2>2. CASE files'[This].ran = files[This].ran /\ g.kids = Top.kids
    <3>1. \A P, n : Balanced(files, This, P, n) => Balanced(files', This, P, n)
      BY <1>5, <1>7, <2>2
    <3>2. g.object = This
      BY SMTT(30) DEF This
    <3> QED BY <2>1, <2>2, <3>1, <3>2
  <2>3. ASSUME NEW e \in Entries, files'[This].ran = Append(files[This].ran, e),
               e.pass = Top.pass, Top.kids = 0, g.kids = e.kids
        PROVE  <1>10
    <3>1. files \in Seq(Object) /\ e.pass \in Passes
      BY DEF TypeOK, Entries
    <3>2. \A P : /\ e.pass \in P /\ Balanced(files, This, P, 0) => Balanced(files', This, P, e.kids)
                /\ \A n : e.pass \notin P /\ Balanced(files, This, P, n) => Balanced(files', This, P, n)
      BY <1>5, <2>3, <3>1, BalanceAppend
    <3>3. Balanced(files', This, Passes, e.kids)
      BY <2>1, <2>3, <3>1, <3>2
    <3>4. Top.pass = "first" => Balanced(files', This, {"first"}, e.kids)
      BY <2>1, <2>3, <3>2
    <3>5. Top.pass = "second" => Balanced(files', This, {"first"}, 0)
      BY <2>1, <2>3, <3>2
    <3> QED BY <2>3, <3>3, <3>4, <3>5 DEF This
  <2> QED BY <2>2, <2>3
<1>11. ASSUME NEW i \in DOMAIN stack, i # 1
       PROVE  LET f == stack[i] IN
              /\ ~f.closing => Balanced(files', f.object, Passes, f.kids)
              /\ f.closing /\ (i = 1 \/ stack'[i - 1].pass # "second")
                   => Balanced(files', f.object, Passes, 0)
              /\ f.pass = "first" => Balanced(files', f.object, {"first"}, f.kids)
              /\ f.pass = "second" => Balanced(files', f.object, {"first"}, 0)
  <2> DEFINE f == stack[i]
  <2>1. /\ ~f.closing => Balanced(files, f.object, Passes, f.kids)
        /\ f.closing /\ (i = 1 \/ stack[i - 1].pass # "second")
             => Balanced(files, f.object, Passes, 0)
        /\ f.pass = "first" => Balanced(files, f.object, {"first"}, f.kids)
        /\ f.pass = "second" => Balanced(files, f.object, {"first"}, 0)
    BY DEF Accounts
  <2>2. i - 1 \in DOMAIN stack /\ stack'[i - 1].pass = stack[i - 1].pass
    BY <1>1, <1>3, <1>11
  <2>3. f.object \in DOMAIN files
    BY <1>4
  <2>4. CASE f.object # This
    <3>1. files'[f.object].ran = files[f.object].ran
      BY <2>3, <2>4
    <3> QED BY <1>7, <2>1, <2>2, <2>3, <3>1
  <2>5. CASE f.object = This
    <3>1. i = 2 /\ Top.pass = "second" /\ f.closing
      BY <1>11, <2>5, SameObject
    <3>2. stack'[i - 1].pass = "second" /\ f.pass = "first" /\ f.kids = 0
      <4>1. Sound(files, f)
        BY DEF Calls
      <4> QED BY <1>1, <2>2, <3>1, <4>1 DEF Sound
    <3>3. Balanced(files, This, {"first"}, 0)
      BY <2>1, <2>5, <3>2
    <3>4. CASE files'[This].ran = files[This].ran
      BY <1>5, <1>7, <2>5, <3>1, <3>2, <3>3, <3>4
    <3>5. ASSUME NEW e \in Entries, files'[This].ran = Append(files[This].ran, e), e.pass = Top.pass
          PROVE  Balanced(files', This, {"first"}, 0)
      <4>1. files \in Seq(Object) /\ e.pass \notin {"first"}
        BY <3>1, <3>5 DEF TypeOK
      <4> QED BY <1>5, <3>3, <3>5, <4>1, BalanceAppend
    <3> QED BY <2>5, <3>1, <3>2, <3>4, <3>5
  <2> QED BY <2>4, <2>5
<1>12. ASSUME NEW i \in DOMAIN stack, NEW k \in Kids(files, stack[i].object, Passes)
       PROVE  files'[k].state = "done" \/ \E j \in 1 .. i - 1 : stack'[j].object = k
  <2>1. files[k].state = "done" \/ \E j \in 1 .. i - 1 : stack[j].object = k
    BY DEF Accounts
  <2>2. \A j \in 1 .. i - 1 : stack'[j].object = stack[j].object
    BY <1>1, <1>3
  <2> QED BY <1>8, <2>1, <2>2
<1>13. \A i \in DOMAIN stack' : LET f == stack'[i] IN
         /\ ~f.closing => Balanced(files', f.object, Passes, f.kids)
         /\ f.closing /\ (i = 1 \/ stack'[i - 1].pass # "second")
              => Balanced(files', f.object, Passes, 0)
         /\ f.pass = "first" => Balanced(files', f.object, {"first"}, f.kids)
         /\ f.pass = "second" => Balanced(files', f.object, {"first"}, 0)
  BY <1>2, <1>10, <1>11
<1>14. \A i \in DOMAIN stack' : \A k \in Kids(files', stack'[i].object, Passes) :
         files'[k].state = "done" \/ \E j \in 1 .. i - 1 : stack'[j].object = k
  <2> SUFFICES ASSUME NEW i \in DOMAIN stack', NEW k \in Kids(files', stack'[i].object, Passes)
               PROVE  files'[k].state = "done" \/ \E j \in 1 .. i - 1 : stack'[j].object = k
    OBVIOUS
  <2>1. i \in DOMAIN stack /\ k \in Kids(files, stack[i].object, Passes)
    BY <1>2, <1>3, <1>6
  <2> QED BY <1>12, <2>1
<1> QED BY <1>9, <1>13, <1>14 DEF Accounts

(* What is left of Course while no object changes its state.                *)
LEMMA CourseInPlace ==
  ASSUME TypeOK, Calls, Course, stack # <<>>, outcome' = outcome,
         Grows(files, files'), DOMAIN files' = DOMAIN files,
         \A o \in DOMAIN files : files'[o].state = files[o].state,
         \A o \in DOMAIN files : o # This => files'[o].ran = files[o].ran,
         DOMAIN stack' = DOMAIN stack,
         \A i \in DOMAIN stack : stack'[i].object = stack[i].object
  PROVE  Course'
<1>1. 1 \in DOMAIN stack /\ stack[1].object = This
  BY FirstOf DEF TypeOK, This, Top
<1>2. outcome' = "running" /\ \A o \in DOMAIN files' : files'[o].state # "cut"
  BY DEF Course
<1>3. ASSUME NEW o \in DOMAIN files', files'[o].state = "open",
             \A i \in DOMAIN stack' : stack'[i].object # o
      PROVE  files'[o].ran = <<>>
  <2>1. o # This /\ \A i \in DOMAIN stack : stack[i].object # o
    BY <1>1, <1>3
  <2> QED BY <1>3, <2>1 DEF Course
<1>4. ASSUME NEW o \in DOMAIN files', "scan_timeout" \in files'[o].flags
      PROVE  files'[o].state = "cut"
  <2>1. o \in DOMAIN files /\ "scan_timeout" \in files[o].flags
    BY <1>4 DEF Grows
  <2> QED BY <2>1 DEF Course
<1> QED BY <1>2, <1>3, <1>4 DEF Course

LEMMA FitAppend ==
  ASSUME NEW ran \in Seq(Entries), NEW e \in Entries, NEW f \in Frame, NEW g \in Frame,
         Fit(ran, f), ~f.closing, e.pass = f.pass, e.rank = f.rank, f.pass = "ext" => f.rank = 0,
         g.pass = f.pass, g.rank = f.rank, f.seen \subseteq g.seen, e.module \in g.seen
  PROVE  Fit(Append(ran, e), g)
<1> DEFINE more == Append(ran, e)
<1>1. /\ DOMAIN more = 1 .. Len(ran) + 1 /\ DOMAIN ran = 1 .. Len(ran) /\ Len(ran) \in Nat
      /\ more[Len(ran) + 1] = e /\ \A i \in 1 .. Len(ran) : more[i] = ran[i]
  BY AppendAny
<1>2. e.rank <= f.rank
  BY DEF Frame
<1>3. \A i \in DOMAIN more : (i \in DOMAIN ran /\ more[i] = ran[i]) \/ more[i] = e
  BY <1>1
<1> HIDE DEF more
<1>4. ASSUME NEW i \in DOMAIN more
      PROVE  /\ g.pass = "first" => more[i].pass = "first"
             /\ g.pass = "ext" => more[i].pass = "ext" /\ more[i].rank = 0
             /\ g.pass = "second" => more[i].pass # "ext"
             /\ more[i].pass = g.pass => more[i].rank <= g.rank
             /\ more[i].pass = g.pass /\ g.pass # "ext" => more[i].module \in g.seen
  <2>1. CASE more[i] = e
    BY <1>2, <2>1
  <2>2. CASE i \in DOMAIN ran /\ more[i] = ran[i]
    BY <2>2 DEF Fit
  <2> QED BY <1>3, <2>1, <2>2
<1> QED BY <1>4 DEF Fit, more

LEMMA OrderRecorded ==
  ASSUME TypeOK, RunsInOrder, This \in DOMAIN files, NEW e \in Entries,
         Recorded(files, files', This, e), Top \in Frame, ~Top.closing, Fit(files[This].ran, Top),
         e.pass = Top.pass, e.rank = Top.rank, Top.pass = "ext" => Top.rank = 0,
         e.pass # "ext" => e.module \notin Top.seen
  PROVE  RunsInOrder'
<1> DEFINE ran == files[This].ran
           more == files'[This].ran
<1>1. ran \in Seq(Entries)
  <2>1. files[This] \in Object
    BY DEF TypeOK
  <2> QED BY <2>1 DEF Object, Entries
<1>2. /\ DOMAIN more = 1 .. Len(ran) + 1 /\ DOMAIN ran = 1 .. Len(ran) /\ Len(ran) \in Nat
      /\ more[Len(ran) + 1] = e /\ \A i \in 1 .. Len(ran) : more[i] = ran[i]
  BY <1>1, AppendAny DEF Recorded
<1>3. e.rank \in Nat
  BY DEF Frame
<1>4. ASSUME NEW j \in DOMAIN more, NEW i \in 1 .. j - 1
      PROVE  /\ more[i].pass = "second" => more[j].pass = "second"
             /\ more[i].pass = more[j].pass => more[i].rank <= more[j].rank
             /\ more[i].pass = more[j].pass /\ more[i].pass # "ext"
                  => more[i].module # more[j].module
  <2>1. i \in DOMAIN ran /\ more[i] = ran[i]
    BY <1>2
  <2>2. CASE j = Len(ran) + 1
    <3>1. more[j] = e
      BY <1>2, <2>2
    <3>2. /\ Top.pass = "first" => ran[i].pass = "first"
          /\ Top.pass = "ext" => ran[i].pass = "ext" /\ ran[i].rank = 0
          /\ ran[i].pass = Top.pass => ran[i].rank <= Top.rank
          /\ ran[i].pass = Top.pass /\ Top.pass # "ext" => ran[i].module \in Top.seen
      BY <2>1 DEF Fit
    <3>3. Top.pass \in Passes
      BY DEF Frame
    <3> HIDE DEF ran, more
    <3> QED BY <2>1, <3>1, <3>2, <3>3 DEF Passes
  <2>3. CASE j \in DOMAIN ran
    <3>1. more[j] = ran[j]
      BY <1>2, <2>3
    <3> QED BY <2>1, <2>3, <3>1 DEF RunsInOrder
  <2> QED BY <1>2, <2>2, <2>3
<1>5. ASSUME NEW o \in DOMAIN files, o # This, NEW j \in DOMAIN files'[o].ran, NEW i \in 1 .. j - 1
      PROVE  /\ files'[o].ran[i].pass = "second" => files'[o].ran[j].pass = "second"
             /\ files'[o].ran[i].pass = files'[o].ran[j].pass
                  => files'[o].ran[i].rank <= files'[o].ran[j].rank
             /\ files'[o].ran[i].pass = files'[o].ran[j].pass /\ files'[o].ran[i].pass # "ext"
                  => files'[o].ran[i].module # files'[o].ran[j].module
  <2>1. files'[o].ran = files[o].ran
    BY <1>5 DEF Recorded
  <2> QED BY <1>5, <2>1 DEF RunsInOrder
<1>6. DOMAIN files' = DOMAIN files
  BY DEF Recorded
<1> QED BY <1>4, <1>5, <1>6 DEF RunsInOrder

LEMMA LateRecorded ==
  ASSUME NEW fs \in Seq(Object), NEW gs, NEW o \in DOMAIN fs, NEW e \in Entries,
         Recorded(fs, gs, o, e), LateEntries(fs) = {}
  PROVE  LateEntries(gs) = IF e.late /\ e.pass = "first" THEN {<<o, Len(fs[o].ran) + 1>>} ELSE {}
<1>1. fs[o].ran \in Seq(Entries)
  <2>1. fs[o] \in Object
    OBVIOUS
  <2> QED BY <2>1 DEF Object, Entries
<1> DEFINE ran == fs[o].ran
           more == gs[o].ran
<1>2. /\ DOMAIN more = 1 .. Len(ran) + 1 /\ DOMAIN ran = 1 .. Len(ran) /\ Len(ran) \in Nat
      /\ more[Len(ran) + 1] = e /\ \A i \in 1 .. Len(ran) : more[i] = ran[i]
  BY <1>1, AppendAny DEF Recorded
<1>3. \A k \in DOMAIN fs : \A i \in DOMAIN fs[k].ran : ~(fs[k].ran[i].late /\ fs[k].ran[i].pass = "first")
  <2> SUFFICES ASSUME NEW k \in DOMAIN fs, NEW i \in DOMAIN fs[k].ran,
                      fs[k].ran[i].late, fs[k].ran[i].pass = "first"
               PROVE  <<k, i>> \in LateEntries(fs)
    OBVIOUS
  <2>1. i \in {j \in DOMAIN fs[k].ran : fs[k].ran[j].late /\ fs[k].ran[j].pass = "first"}
    OBVIOUS
  <2> DEFINE lateOf(k0) == {<<k0, x>> : x \in {j \in DOMAIN fs[k0].ran :
                             fs[k0].ran[j].late /\ fs[k0].ran[j].pass = "first"}}
  <2>2. <<k, i>> \in lateOf(k)
    BY <2>1
  <2>3. LateEntries(fs) = UNION {lateOf(k0) : k0 \in DOMAIN fs}
    BY DEF LateEntries
  <2> HIDE DEF lateOf
  <2> QED BY <2>2, <2>3
<1>4. \A k \in DOMAIN fs : k # o => gs[k].ran = fs[k].ran
  BY DEF Recorded
<1>5. \A i \in DOMAIN more : more[i].late /\ more[i].pass = "first" => i = Len(ran) + 1
  <2>1. \A i \in 1 .. Len(ran) : ~(ran[i].late /\ ran[i].pass = "first")
    BY <1>2, <1>3
  <2> HIDE DEF ran, more
  <2>2. \A i \in 1 .. Len(ran) : ~(more[i].late /\ more[i].pass = "first")
    BY <1>2, <2>1
  <2> QED BY <1>2, <2>2
<1>6. DOMAIN gs = DOMAIN fs
  BY DEF Recorded
<1>7. \A k \in DOMAIN gs : k # o =>
        {i \in DOMAIN gs[k].ran : gs[k].ran[i].late /\ gs[k].ran[i].pass = "first"} = {}
  BY <1>3, <1>4, <1>6
<1>8. {i \in DOMAIN more : more[i].late /\ more[i].pass = "first"}
        = IF e.late /\ e.pass = "first" THEN {Len(ran) + 1} ELSE {}
  <2>1. Len(ran) + 1 \in DOMAIN more /\ more[Len(ran) + 1] = e
    BY <1>2
  <2> HIDE DEF more, ran
  <2> QED BY <1>5, <2>1
<1>9. LateEntries(gs) = {<<o, i>> : i \in {j \in DOMAIN more : more[j].late /\ more[j].pass = "first"}}
  <2>1. ASSUME NEW x \in LateEntries(gs)
        PROVE  x \in {<<o, i>> : i \in {j \in DOMAIN more : more[j].late /\ more[j].pass = "first"}}
    <3>1. PICK k \in DOMAIN gs : x \in {<<k, i>> : i \in {j \in DOMAIN gs[k].ran :
                                        gs[k].ran[j].late /\ gs[k].ran[j].pass = "first"}}
      BY <2>1 DEF LateEntries
    <3>2. k = o
      BY <1>7, <3>1
    <3> QED BY <3>1, <3>2
  <2>2. {<<o, i>> : i \in {j \in DOMAIN more : more[j].late /\ more[j].pass = "first"}} \subseteq LateEntries(gs)
    BY <1>6 DEF LateEntries
  <2> QED BY <2>1, <2>2
<1> HIDE DEF more, ran
<1>10. LateEntries(gs) = IF e.late /\ e.pass = "first" THEN {<<o, Len(ran) + 1>>} ELSE {}
  BY <1>8, <1>9
<1> QED BY <1>10 DEF ran

LEMMA DepthRule ==
  ASSUME NEW fs \in Seq(Object), NEW o \in DOMAIN fs, Placed(fs, o)
  PROVE  fs[o].depth = IF fs[o].parent = 0 THEN StartDepth
                       ELSE IF fs[o].pass = "ext" THEN fs[fs[o].parent].depth
                       ELSE fs[fs[o].parent].depth + 1
<1>1. o # 1 => fs[o].parent # 0
  BY DEF Placed
<1> QED BY <1>1 DEF Placed

---------------------------------------------------------------------------
(* The present call goes on in place, as g: it has taken something from     *)
(* what it has to do, or an exception has been raised.                      *)
LEMMA QuietStep ==
  ASSUME IInv, Running, Top.closing = FALSE, UNCHANGED files,
         NEW g \in Frame, stack' = <<g>> \o Tail(stack), Sound(files, g),
         g.object = Top.object, g.pass = Top.pass, g.kids = Top.kids, g.closing = FALSE,
         Top.rank <= g.rank, Top.seen \subseteq g.seen,
         raised' \in {"none", "scan_timeout", "quit", "error"}, late' \in BOOLEAN,
         outcome' = outcome
  PROVE  IInv'
<1> USE DEF IInv
<1>1. /\ stack # <<>> /\ raised = "none"
      /\ 1 \in DOMAIN stack /\ stack[1] = Top /\ Top \in Frame
      /\ stack' \in Seq(Frame) /\ stack' # <<>> /\ DOMAIN stack' = DOMAIN stack
      /\ stack'[1] = g /\ \A i \in DOMAIN stack : i # 1 => stack'[i] = stack[i]
  BY FirstOf, Replaced DEF Running, TypeOK, Top
<1>2. Grows(files, files') /\ files' \in Seq(Object)
  BY DEF Grows, TypeOK
<1>3. TypeOK'
  BY <1>1, <1>2 DEF TypeOK
<1>4. Tree'
  BY <1>2, TreeSame
<1>5. Calls'
  BY <1>1, <1>2, CallsInPlace
<1>6. Accounts'
  BY <1>1, <1>2, AccountsInPlace
<1>7. Course'
  <2>1. \A i \in DOMAIN stack : stack'[i].object = stack[i].object
    BY <1>1
  <2> QED BY <1>1, <1>2, <2>1, CourseInPlace
<1>8. Fitting'
  <2>1. Fit(files[Top.object].ran, Top)
    BY <1>1 DEF Fitting
  <2>2. Fit(files[g.object].ran, g)
    <3> SUFFICES ASSUME NEW i \in DOMAIN files[Top.object].ran
                 PROVE  LET e == files[Top.object].ran[i] IN
                        /\ g.pass = "first" => e.pass = "first"
                        /\ g.pass = "ext" => e.pass = "ext" /\ e.rank = 0
                        /\ g.pass = "second" => e.pass # "ext"
                        /\ e.pass = g.pass => e.rank <= g.rank
                        /\ e.pass = g.pass /\ g.pass # "ext" => e.module \in g.seen
      BY DEF Fit
    <3> DEFINE e == files[Top.object].ran[i]
    <3>1. /\ Top.pass = "first" => e.pass = "first"
          /\ Top.pass = "ext" => e.pass = "ext" /\ e.rank = 0
          /\ Top.pass = "second" => e.pass # "ext"
          /\ e.pass = Top.pass => e.rank <= Top.rank
          /\ e.pass = Top.pass /\ Top.pass # "ext" => e.module \in Top.seen
      BY <2>1 DEF Fit
    <3>2. e.rank \in Nat /\ Top.rank \in Nat /\ g.rank \in Nat
      <4>1. Top.object \in DOMAIN files
        BY <1>1 DEF Calls, Sound
      <4>2. files[Top.object] \in Object
        BY <4>1 DEF TypeOK
      <4>3. files[Top.object].ran \in Seq(Entries)
        BY <4>2 DEF Object, Entries
      <4>4. e \in Entries
        BY <4>3
      <4> QED BY <1>1, <4>4 DEF Entries, Frame
    <3> HIDE DEF e
    <3>3. e.pass = g.pass => e.rank <= g.rank
      BY <3>1, <3>2
    <3> QED BY <3>1, <3>3 DEF e
  <2>3. \A i \in DOMAIN stack : i # 1 => Fit(files[stack[i].object].ran, stack[i])
    BY <1>1 DEF Fitting
  <2> QED BY <1>1, <2>2, <2>3 DEF Fitting
<1>9. Lateness'
  BY <1>1 DEF Lateness, LateStarts, LateEntries
<1>10. RunsInOrder' /\ DepthLimit'
  BY DEF RunsInOrder, DepthLimit
<1> QED BY <1>3, <1>4, <1>5, <1>6, <1>7, <1>8, <1>9, <1>10

(* The present call has run a module, with the entry e, and goes on as g,   *)
(* or an exception has been raised.                                         *)
LEMMA RecordingStep ==
  ASSUME IInv, Running, MayRun(Top), NEW e \in Entries, Recorded(files, files', This, e),
         e.pass = Top.pass, e.rank = Top.rank, e.module = Head(Top.next), e.late = late,
         NEW g \in Frame, stack' = <<g>> \o Tail(stack),
         g.object = Top.object, g.pass = Top.pass, g.depth = Top.depth, g.queue = Top.queue,
         g.rank = Top.rank, g.kids = e.kids, g.closing = Top.closing,
         raised' = "none" => /\ Top.seen \subseteq g.seen /\ e.module \in g.seen
                             /\ ~(late /\ Top.pass = "first"),
         raised' \in {"none", "scan_timeout", "quit", "error"}, late' \in BOOLEAN,
         outcome' = outcome
  PROVE  IInv'
<1> USE DEF IInv
<1>1. /\ stack # <<>> /\ raised = "none"
      /\ 1 \in DOMAIN stack /\ stack[1] = Top /\ Top \in Frame
      /\ stack' \in Seq(Frame) /\ stack' # <<>> /\ DOMAIN stack' = DOMAIN stack
      /\ stack'[1] = g /\ \A i \in DOMAIN stack : i # 1 => stack'[i] = stack[i]
  BY FirstOf, Replaced DEF Running, TypeOK, Top
<1>2. Sound(files, Top) /\ Top.next # <<>> /\ Top.kids = 0
  BY <1>1 DEF Calls, MayRun
<1>3. /\ Top.closing = FALSE /\ (Top.pass # "ext" => ~TooDeep(Top)) /\ g.closing = FALSE
      /\ This \in DOMAIN files /\ This = Top.object
  <2>1. Top.closing \in BOOLEAN
    BY <1>1 DEF Frame
  <2> QED BY <1>2, <2>1 DEF Sound, This
<1>4. /\ files' \in Seq(Object) /\ DOMAIN files' = DOMAIN files /\ Grows(files, files')
      /\ \A o \in DOMAIN files : files'[o].state = files[o].state
      /\ \A o \in DOMAIN files : o # This => files'[o].ran = files[o].ran
      /\ files'[This].ran = Append(files[This].ran, e)
  BY DEF Recorded
<1>5. files[This].ran \in Seq(Entries)
  <2>1. files[This] \in Object
    BY <1>3 DEF TypeOK
  <2> QED BY <2>1 DEF Object, Entries
<1>6. TypeOK'
  BY <1>1, <1>4 DEF TypeOK
<1>7. Tree'
  BY <1>4, TreeSame
<1>8. Calls'
  <2>1. Sound(files', g)
    <3>1. files'[g.object].state = "open" /\ files'[g.object].depth = files[g.object].depth
      BY <1>2, <1>3, <1>4 DEF Sound, Grows
    <3>2. g.pass # "ext" => ~TooDeep(g)
      BY <1>3 DEF TooDeep
    <3> QED BY <1>2, <1>3, <1>4, <3>1, <3>2 DEF Sound
  <2> QED BY <1>1, <1>3, <1>4, <2>1, CallsInPlace
<1>9. Accounts'
  BY <1>1, <1>2, <1>3, <1>4, AccountsInPlace
<1>10. Course'
  <2>1. \A i \in DOMAIN stack : stack'[i].object = stack[i].object
    BY <1>1
  <2> QED BY <1>1, <1>4, <2>1, CourseInPlace
<1>11. Fit(files[This].ran, Top) /\ (Top.pass = "ext" => Top.rank = 0)
  BY <1>1, <1>2, <1>3 DEF Fitting, Sound
<1>12. Fitting'
  <2> SUFFICES ASSUME raised' = "none", NEW i \in DOMAIN stack
               PROVE  Fit(files'[stack'[i].object].ran, stack'[i])
    BY <1>1 DEF Fitting
  <2>1. CASE i = 1
    <3>1. Fit(Append(files[This].ran, e), g)
      BY <1>1, <1>3, <1>5, <1>11, FitAppend
    <3> QED BY <1>1, <1>3, <1>4, <2>1, <3>1
  <2>2. CASE i # 1 /\ stack[i].object # This
    <3>1. Fit(files[stack[i].object].ran, stack[i]) /\ stack[i].object \in DOMAIN files
      BY <1>1 DEF Fitting, Calls, Sound
    <3> QED BY <1>1, <1>4, <2>2, <3>1
  <2>3. CASE i # 1 /\ stack[i].object = This
    <3>1. stack[i].closing
      BY <2>3, SameObject
    <3>2. stack'[i].closing
      BY <1>1, <2>3, <3>1
    <3>3. \A ran, f : f.closing => Fit(ran, f)
      BY DEF Fit
    <3> QED BY <3>2, <3>3
  <2> QED BY <2>1, <2>2, <2>3
<1>13. RunsInOrder'
  <2>1. e.pass # "ext" => e.module \notin Top.seen
    BY DEF MayRun
  <2> QED BY <1>1, <1>3, <1>11, <2>1, OrderRecorded
<1>14. Lateness'
  <2>1. LateEntries(files) = {}
    BY <1>1 DEF Lateness
  <2>2. LateEntries(files') = IF e.late /\ e.pass = "first"
                              THEN {<<This, Len(files[This].ran) + 1>>} ELSE {}
    BY <1>3, <2>1, LateRecorded DEF TypeOK
  <2>3. raised' = "none" => LateEntries(files') = {}
    BY <2>2
  <2>4. Cardinality(LateEntries(files')) <= 1
    <3>1. \A x : Cardinality({x}) = 1
      BY FS_Singleton
    <3>2. Cardinality({}) = 0
      BY FS_EmptySet
    <3>3. \/ LateEntries(files') = {<<This, Len(files[This].ran) + 1>>}
          \/ LateEntries(files') = {}
      BY <2>2
    <3>4. Cardinality(LateEntries(files')) = 1 \/ Cardinality(LateEntries(files')) = 0
      BY <3>1, <3>2, <3>3, Zenon
    <3> QED BY <3>4
  <2> QED BY <2>3, <2>4 DEF Lateness, LateStarts, LateEntries
<1>15. DepthLimit'
  <2>1. \A o \in DOMAIN files' : Placed(files', o)
    BY <1>7 DEF Tree
  <2>2. \A o \in DOMAIN files' :
          files'[o].depth = IF files'[o].parent = 0 THEN StartDepth
                            ELSE IF files'[o].pass = "ext" THEN files'[files'[o].parent].depth
                            ELSE files'[files'[o].parent].depth + 1
    BY <1>4, <2>1, DepthRule
  <2>3. ASSUME MaxDepth > 0, StartDepth <= MaxDepth, NEW o \in DOMAIN files'
        PROVE  /\ files'[o].depth <= MaxDepth
               /\ (\E i \in DOMAIN files'[o].ran : files'[o].ran[i].pass # "ext")
                    => files'[o].depth < MaxDepth
               /\ files'[o].parent # 0 /\ files'[o].state = "done" /\ files'[o].depth = MaxDepth
                    => "max_depth_exceeded" \in files'[o].flags
    <3>1. /\ files[o].depth <= MaxDepth
          /\ (\E i \in DOMAIN files[o].ran : files[o].ran[i].pass # "ext")
               => files[o].depth < MaxDepth
          /\ files[o].parent # 0 /\ files[o].state = "done" /\ files[o].depth = MaxDepth
               => "max_depth_exceeded" \in files[o].flags
      BY <1>4, <2>3 DEF DepthLimit
    <3>2. /\ files'[o].depth = files[o].depth /\ files'[o].parent = files[o].parent
          /\ files'[o].state = files[o].state /\ files[o].flags \subseteq files'[o].flags
      BY <1>4 DEF Grows
    <3>3. CASE o # This
      BY <1>4, <3>1, <3>2, <3>3
    <3>4. CASE o = This
      <4>1. files'[o].state # "done"
        BY <1>2, <1>3, <3>2, <3>4 DEF Sound
      <4>2. ASSUME NEW i \in DOMAIN files'[o].ran, files'[o].ran[i].pass # "ext"
            PROVE  files'[o].depth < MaxDepth
        <5>1. (i \in DOMAIN files[o].ran /\ files'[o].ran[i] = files[o].ran[i]) \/ files'[o].ran[i] = e
          <6> DEFINE ran == files[This].ran
                     more == files'[This].ran
          <6>1. ran \in Seq(Entries) /\ more = Append(ran, e) /\ i \in DOMAIN more
            BY <1>4, <1>5, <3>4, <4>2
          <6> HIDE DEF ran, more
          <6>2. /\ DOMAIN more = 1 .. Len(ran) + 1 /\ DOMAIN ran = 1 .. Len(ran) /\ Len(ran) \in Nat
                /\ more[Len(ran) + 1] = e /\ \A k \in 1 .. Len(ran) : more[k] = ran[k]
            BY <6>1, AppendAny
          <6>3. (i \in DOMAIN ran /\ more[i] = ran[i]) \/ more[i] = e
            BY <6>1, <6>2
          <6> QED BY <3>4, <6>3 DEF ran, more
        <5>2. CASE i \in DOMAIN files[o].ran /\ files'[o].ran[i] = files[o].ran[i]
          BY <3>1, <3>2, <4>2, <5>2
        <5>3. CASE files'[o].ran[i] = e
          <6>1. Top.pass # "ext"
            BY <4>2, <5>3
          <6>2. Top.depth = files[o].depth + 1 /\ ~(Top.depth > MaxDepth)
            BY <1>2, <1>3, <2>3, <3>4, <6>1 DEF Sound, TooDeep
          <6>3. files[o].depth \in Nat /\ MaxDepth \in Nat
            <7>1. files[o] \in Object
              BY <1>4 DEF TypeOK
            <7> QED BY <7>1, DepthAssumption DEF Object
          <6> QED BY <3>2, <6>2, <6>3
        <5> QED BY <5>1, <5>2, <5>3
      <4> QED BY <3>1, <3>2, <4>1, <4>2
    <3> QED BY <3>3, <3>4
  <2> QED BY <2>2, <2>3 DEF DepthLimit
<1> QED BY <1>6, <1>7, <1>8, <1>9, <1>10, <1>12, <1>13, <1>14, <1>15

---------------------------------------------------------------------------
(* What the invariant says of the present call while the program runs.      *)
LEMMA Present ==
  ASSUME IInv, Running
  PROVE  /\ stack # <<>> /\ raised = "none" /\ 1 \in DOMAIN stack /\ stack[1] = Top
         /\ Top \in Frame /\ Top.closing \in BOOLEAN /\ Top.pass \in Passes
         /\ Sound(files, Top) /\ This = Top.object /\ This \in DOMAIN files
         /\ files[This] \in Object /\ files[This].ran \in Seq(Entries)
<1>1. /\ stack # <<>> /\ raised = "none" /\ 1 \in DOMAIN stack /\ stack[1] = Top /\ Top \in Frame
  BY FirstOf DEF IInv, Running, TypeOK, Top
<1>2. Top.closing \in BOOLEAN /\ Top.pass \in Passes
  BY <1>1 DEF Frame
<1>3. Sound(files, Top)
  BY <1>1 DEF IInv, Calls
<1>4. This = Top.object /\ This \in DOMAIN files
  BY <1>3 DEF Sound, This
<1>5. files[This] \in Object
  BY <1>4 DEF IInv, TypeOK
<1>6. files[This].ran \in Seq(Entries)
  BY <1>5 DEF Object, Entries
<1> QED BY <1>1, <1>2, <1>3, <1>4, <1>5, <1>6

LEMMA NextRuleStep ==
  ASSUME IInv, NextRule
  PROVE  IInv'
<1>1. /\ Running /\ ~TooDeep(Top) /\ ~Top.closing /\ Top.next = <<>> /\ Top.kids = 0
      /\ UNCHANGED <<files, raised, late, outcome>>
  BY DEF NextRule
<1>2. PICK r \in Top.queue :
        /\ \A s \in Top.queue : Priority[r] <= Priority[s]
        /\ stack' = <<Taken(Top, r)>> \o Tail(stack)
  BY DEF NextRule, Goto
<1>3. /\ Top \in Frame /\ Top.closing = FALSE /\ Sound(files, Top)
  BY <1>1, Present
<1>4. r \in Rules /\ Priority[r] \in Nat /\ ScanModules[r] \in Seq(Modules)
  <2>1. r \in Rules
    BY <1>3 DEF Frame
  <2> QED BY <2>1, RulesAssumption
<1>5. PICK g : g = Taken(Top, r)
  OBVIOUS
<1>6. /\ g \in Frame /\ g.object = Top.object /\ g.pass = Top.pass /\ g.depth = Top.depth
      /\ g.kids = Top.kids /\ g.closing = FALSE /\ g.seen = Top.seen
      /\ g.queue = Top.queue \ {r} /\ g.rank = Priority[r]
  BY <1>3, <1>4, <1>5 DEF Frame, Taken
<1>7. stack' = <<g>> \o Tail(stack)
  BY <1>2, <1>5
<1>8. Sound(files, g)
  <2>1. Top.pass # "ext" /\ Top.rank <= Priority[r]
    BY <1>3 DEF Sound
  <2>2. ~TooDeep(g)
    BY <1>1, <1>6 DEF TooDeep
  <2> QED BY <1>2, <1>3, <1>6, <2>1, <2>2 DEF Sound
<1>9. Top.rank <= g.rank
  BY <1>3, <1>6 DEF Sound
<1>10. raised' \in {"none", "scan_timeout", "quit", "error"} /\ late' \in BOOLEAN
  BY <1>1 DEF IInv, TypeOK
<1> QED BY <1>1, <1>3, <1>6, <1>7, <1>8, <1>9, <1>10, QuietStep

LEMMA SkipModuleStep ==
  ASSUME IInv, SkipModule
  PROVE  IInv'
<1>1. /\ Running /\ Top.next # <<>> /\ Top.kids = 0 /\ UNCHANGED <<files, raised, late, outcome>>
  BY DEF SkipModule
<1>2. Top \in Frame /\ Top.closing \in BOOLEAN /\ Sound(files, Top)
  BY <1>1, Present
<1>3. Top.closing = FALSE
  BY <1>1, <1>2 DEF Sound
<1>4. PICK g : g = After(Top, 0)
  OBVIOUS
<1>5. Head(Top.next) \in Modules /\ Tail(Top.next) \in Seq(Modules)
  <2>1. Top.next \in Seq(Modules)
    BY <1>2 DEF Frame
  <2> QED BY <1>1, <2>1
<1>6. /\ g \in Frame /\ g.object = Top.object /\ g.pass = Top.pass /\ g.depth = Top.depth
      /\ g.kids = Top.kids /\ g.closing = FALSE /\ Top.seen \subseteq g.seen
      /\ g.queue = Top.queue /\ g.rank = Top.rank
  BY <1>1, <1>2, <1>3, <1>4, <1>5, BoundsAssumption DEF Frame, After
<1>7. stack' = <<g>> \o Tail(stack)
  BY <1>4 DEF SkipModule, Goto
<1>8. Sound(files, g)
  <2>1. g.pass # "ext" => ~TooDeep(g)
    BY <1>1, <1>2, <1>6 DEF Sound, TooDeep
  <2> QED BY <1>2, <1>6, <2>1 DEF Sound
<1>9. Top.rank <= g.rank
  BY <1>2, <1>6 DEF Frame
<1>10. raised' \in {"none", "scan_timeout", "quit", "error"} /\ late' \in BOOLEAN
  BY <1>1 DEF IInv, TypeOK
<1> QED BY <1>1, <1>3, <1>6, <1>7, <1>8, <1>9, <1>10, QuietStep

(* What a module leaves at its object.                                      *)
LEMMA RecordType ==
  ASSUME IInv, Running, NEW kids \in 0 .. MaxKids, NEW stored \in SUBSET SUBSET Flags,
         NEW flags \in SUBSET {"module_timeout", "quit_scan"}, Top.next # <<>>,
         Record(kids, stored, flags)
  PROVE  /\ Entry(kids, stored) \in Entries
         /\ Recorded(files, files', This, Entry(kids, stored))
<1> DEFINE e == Entry(kids, stored)
<1>1. /\ Top \in Frame /\ This \in DOMAIN files /\ files[This] \in Object
      /\ files[This].ran \in Seq(Entries) /\ files \in Seq(Object)
  BY Present DEF IInv, TypeOK
<1>2. e \in Entries
  <2>1. Top.pass \in Passes /\ Top.rank \in Nat /\ Top.next \in Seq(Modules) /\ late \in BOOLEAN
    BY <1>1 DEF Frame, IInv, TypeOK
  <2>2. Head(Top.next) \in Modules
    BY <2>1
  <2> QED BY <2>1, <2>2 DEF Entry, Entries
<1> HIDE DEF e
<1>3. files' = [files EXCEPT ![This].ran = Append(@, e), ![This].flags = @ \cup flags]
  BY DEF Record, WithEntry, e
<1>4. PICK x : x = files[This]
  OBVIOUS
<1>5. PICK y : y = [x EXCEPT !.ran = Append(@, e), !.flags = @ \cup flags]
  OBVIOUS
<1>6. files'[This] = y /\ DOMAIN files' = DOMAIN files /\ files' = [i \in DOMAIN files' |-> files'[i]]
      /\ \A i \in DOMAIN files : i # This => files'[i] = files[i]
  BY <1>1, <1>3, <1>4, <1>5
<1>7. Append(x.ran, e) \in Seq(Entries) /\ flags \subseteq Flags /\ "scan_timeout" \notin flags
  BY <1>1, <1>2, <1>4, AppendAny DEF Flags, OwnFlags
<1>8. /\ y \in Object /\ y.ran = Append(x.ran, e) /\ y.flags = x.flags \cup flags
      /\ y.parent = x.parent /\ y.pass = x.pass /\ y.depth = x.depth /\ y.state = x.state
  <2>1. x \in Object
    BY <1>1, <1>4
  <2> QED BY <1>5, <1>7, <2>1 DEF Object, Entries
<1>9. files' \in Seq(Object)
  <2>1. \A i \in DOMAIN files : files'[i] \in Object
    BY <1>1, <1>6, <1>8
  <2>2. DOMAIN files = 1 .. Len(files) /\ Len(files) \in Nat
    BY <1>1
  <2> QED BY <1>6, <2>1, <2>2, FunctionIsSeq
<1>10. Grows(files, files')
  BY <1>4, <1>6, <1>7, <1>8 DEF Grows
<1>11. Recorded(files, files', This, e)
  BY <1>1, <1>4, <1>6, <1>8, <1>9, <1>10 DEF Recorded
<1> QED BY <1>2, <1>11 DEF e

LEMMA RollUpType ==
  ASSUME IInv, Running
  PROVE  RollUp(This) \subseteq Flags
<1>1. \A o \in DOMAIN files : files[o].flags \subseteq Flags /\ files[o].ran \in Seq(Entries)
  <2>1. \A o \in DOMAIN files : files[o] \in Object
    BY DEF IInv, TypeOK
  <2>2. \A x \in Object : x.flags \subseteq Flags /\ x.ran \in Seq(Entries)
    BY DEF Object, Entries
  <2> QED BY <2>1, <2>2
<1>2. \A o \in DOMAIN files : Disposition(o) \subseteq Flags
  <2> SUFFICES ASSUME NEW o \in DOMAIN files, NEW i \in Dispositions(o), NEW F \in files[o].ran[i].stored
               PROVE  F \subseteq Flags
    BY DEF Disposition
  <2>1. i \in DOMAIN files[o].ran
    BY DEF Dispositions
  <2>2. files[o].ran[i] \in Entries
    BY <1>1, <2>1
  <2> QED BY <2>2 DEF Entries
<1>3. This \in DOMAIN files /\ Children(This) \subseteq DOMAIN files
  BY Present DEF Children
<1> QED BY <1>1, <1>2, <1>3 DEF RollUp

LEMMA RunModuleStep ==
  ASSUME IInv, RunModule
  PROVE  IInv'
<1>1. Running /\ MayRun(Top) /\ outcome' = outcome
  BY DEF RunModule
<1>2. PICK kids \in 0 .. MaxKids, flags \in {{}, {"module_timeout"}}, stored \in {{}, {RollUp(This)}} :
        /\ late' \in {late, TRUE}
        /\ \/ /\ TimeUp(Top, late')
              /\ files' = WithEntry(Entry(0, stored), flags)
              /\ raised' = "scan_timeout"
              /\ stack' = stack
           \/ /\ ~TimeUp(Top, late')
              /\ files' = WithEntry(Entry(kids, stored), flags)
              /\ stack' = <<After(Top, kids)>> \o Tail(stack)
              /\ raised' = raised
  BY DEF RunModule, Record, Goto
<1>3. /\ Top \in Frame /\ Sound(files, Top) /\ Top.next # <<>> /\ Top.kids = 0 /\ stack # <<>>
      /\ raised = "none" /\ stack \in Seq(Frame) /\ late \in BOOLEAN /\ stack[1] = Top
  BY <1>1, Present DEF MayRun, IInv, TypeOK
<1>4. stored \in SUBSET SUBSET Flags /\ flags \in SUBSET {"module_timeout", "quit_scan"}
  BY <1>1, RollUpType
<1>5. 0 \in 0 .. MaxKids /\ late' \in BOOLEAN
  <2>1. late' \in {late, TRUE} /\ late \in BOOLEAN
    BY <1>2, <1>3
  <2>2. late' \in BOOLEAN
    BY <2>1, Zenon
  <2> QED BY <2>2, BoundsAssumption
<1>6. CASE /\ TimeUp(Top, late')
           /\ files' = WithEntry(Entry(0, stored), flags)
           /\ raised' = "scan_timeout"
           /\ stack' = stack
  <2>1. PICK e : e = Entry(0, stored)
    OBVIOUS
  <2>2. e \in Entries /\ Recorded(files, files', This, e)
    <3>1. Record(0, stored, flags)
      BY <1>6 DEF Record
    <3> QED BY <1>1, <1>3, <1>4, <1>5, <2>1, <3>1, RecordType
  <2>3. /\ e.pass = Top.pass /\ e.rank = Top.rank /\ e.module = Head(Top.next) /\ e.late = late
        /\ e.kids = Top.kids
    BY <1>3, <2>1 DEF Entry
  <2>4. stack' = <<Top>> \o Tail(stack)
    BY <1>3, <1>6
  <2> QED BY <1>1, <1>3, <1>5, <1>6, <2>2, <2>3, <2>4, RecordingStep
<1>7. CASE /\ ~TimeUp(Top, late')
           /\ files' = WithEntry(Entry(kids, stored), flags)
           /\ stack' = <<After(Top, kids)>> \o Tail(stack)
           /\ raised' = raised
  <2>1. PICK e : e = Entry(kids, stored)
    OBVIOUS
  <2>2. e \in Entries /\ Recorded(files, files', This, e)
    <3>1. Record(kids, stored, flags)
      BY <1>7 DEF Record
    <3> QED BY <1>1, <1>3, <1>4, <2>1, <3>1, RecordType
  <2>3. /\ e.pass = Top.pass /\ e.rank = Top.rank /\ e.module = Head(Top.next) /\ e.late = late
        /\ e.kids = kids
    BY <2>1 DEF Entry
  <2>4. PICK g : g = After(Top, kids)
    OBVIOUS
  <2>5. Head(Top.next) \in Modules /\ Tail(Top.next) \in Seq(Modules)
    <3>1. Top.next \in Seq(Modules)
      BY <1>3 DEF Frame
    <3> QED BY <1>3, <3>1
  <2>6. /\ g \in Frame /\ g.object = Top.object /\ g.pass = Top.pass /\ g.depth = Top.depth
        /\ g.queue = Top.queue /\ g.rank = Top.rank /\ g.kids = kids /\ g.closing = Top.closing
        /\ g.seen = Top.seen \cup {Head(Top.next)}
    BY <1>3, <2>4, <2>5 DEF Frame, After
  <2>7. ~(late /\ Top.pass = "first")
    BY <1>2, <1>3, <1>7 DEF TimeUp
  <2>8. stack' = <<g>> \o Tail(stack)
    BY <1>7, <2>4
  <2> QED BY <1>1, <1>3, <1>5, <1>7, <2>2, <2>3, <2>6, <2>7, <2>8, RecordingStep
<1> QED BY <1>2, <1>6, <1>7

LEMMA InterruptStep ==
  ASSUME IInv, Interrupt
  PROVE  IInv'
<1>1. Running /\ UNCHANGED <<stack, late, outcome>>
  BY DEF Interrupt
<1>2. PICK exception \in {"scan_timeout", "quit"}, inModule \in BOOLEAN :
        /\ raised' = exception
        /\ \/ /\ MayRun(Top)
              /\ files' = WithEntry(Entry(0, {}), IF exception = "quit" THEN {"quit_scan"} ELSE {})
           \/ files' = files
  BY DEF Interrupt, Record
<1>3. /\ Top \in Frame /\ Sound(files, Top) /\ stack # <<>> /\ stack \in Seq(Frame)
      /\ late' \in BOOLEAN /\ stack[1] = Top /\ Top.closing \in BOOLEAN
  BY <1>1, Present DEF IInv, TypeOK
<1>4. stack' = <<Top>> \o Tail(stack)
  BY <1>1, <1>3
<1>5. ASSUME MayRun(Top),
             files' = WithEntry(Entry(0, {}), IF exception = "quit" THEN {"quit_scan"} ELSE {})
      PROVE  IInv'
  <2>1. PICK e : e = Entry(0, {})
    OBVIOUS
  <2>2. PICK flags : flags = IF exception = "quit" THEN {"quit_scan"} ELSE {}
    OBVIOUS
  <2>3. Record(0, {}, flags) /\ flags \in SUBSET {"module_timeout", "quit_scan"}
    BY <1>5, <2>2 DEF Record
  <2>4. Top.next # <<>> /\ Top.kids = 0
    BY <1>5 DEF MayRun
  <2>5. e \in Entries /\ Recorded(files, files', This, e)
    <3>1. 0 \in 0 .. MaxKids /\ {} \in SUBSET SUBSET Flags
      BY BoundsAssumption
    <3> QED BY <1>1, <2>1, <2>3, <2>4, <3>1, RecordType
  <2>6. /\ e.pass = Top.pass /\ e.rank = Top.rank /\ e.module = Head(Top.next) /\ e.late = late
        /\ e.kids = Top.kids
    BY <2>1, <2>4 DEF Entry
  <2>7. raised' # "none" /\ raised' \in {"none", "scan_timeout", "quit", "error"}
    BY <1>2
  <2> QED BY <1>1, <1>3, <1>4, <1>5, <2>5, <2>6, <2>7, RecordingStep
<1>6. ASSUME files' = files
      PROVE  IInv'
  <2>1. raised' # "none" /\ raised' \in {"none", "scan_timeout", "quit", "error"} /\ raised = "none"
    BY <1>1, <1>2, Present
  <2>2. TypeOK' /\ Tree' /\ Calls' /\ RunsInOrder' /\ DepthLimit' /\ Course'
    BY <1>1, <1>6, <2>1 DEF IInv, TypeOK, Tree, Calls, RunsInOrder, DepthLimit, Course
  <2>3. Fitting' /\ Lateness'
    BY <1>1, <1>6, <2>1 DEF IInv, Fitting, Lateness, LateStarts, LateEntries
  <2>4. Accounts'
    BY <1>1, <1>6, <2>1 DEF IInv, Accounts
  <2> QED BY <2>2, <2>3, <2>4 DEF IInv
<1> QED BY <1>2, <1>5, <1>6

---------------------------------------------------------------------------
(* A call is made: b is what becomes of the present call, a the new one.    *)
LEMMA CallsPushed ==
  ASSUME TypeOK, Calls, stack # <<>>, Grows(files, files'),
         \A o \in DOMAIN files : files'[o].state = files[o].state,
         NEW a \in Frame, NEW b \in Frame, stack' = <<a, b>> \o Tail(stack),
         b.object = Top.object, b.pass = Top.pass,
         Sound(files', a), Sound(files', b), Link(files', a, b),
         \A i \in DOMAIN stack : stack[i].object = a.object => i = 1 /\ a.pass = "second"
  PROVE  Calls'
<1>1. /\ 1 \in DOMAIN stack /\ Len(stack) \in DOMAIN stack /\ DOMAIN stack = 1 .. Len(stack)
      /\ Len(stack) \in Nat \ {0} /\ stack[1] = Top
  BY FirstOf DEF TypeOK, Top
<1>2. /\ stack' # <<>> /\ Len(stack') = Len(stack) + 1 /\ DOMAIN stack' = 1 .. Len(stack) + 1
      /\ stack'[1] = a /\ stack'[2] = b /\ \A i \in 3 .. Len(stack) + 1 : stack'[i] = stack[i - 1]
  BY Pushed DEF TypeOK
<1>3. \A i \in DOMAIN stack : /\ stack'[i + 1].object = stack[i].object
                              /\ stack'[i + 1].pass = stack[i].pass
                              /\ i # 1 => stack'[i + 1] = stack[i]
  <2> SUFFICES ASSUME NEW i \in DOMAIN stack
               PROVE  /\ stack'[i + 1].object = stack[i].object
                      /\ stack'[i + 1].pass = stack[i].pass
                      /\ i # 1 => stack'[i + 1] = stack[i]
    OBVIOUS
  <2>1. CASE i = 1
    BY <1>1, <1>2, <2>1
  <2>2. CASE i # 1
    <3>1. i + 1 \in 3 .. Len(stack) + 1 /\ (i + 1) - 1 = i
      BY <1>1, <2>2
    <3> QED BY <1>2, <3>1
  <2> QED BY <2>1, <2>2
<1>4. \A i \in DOMAIN stack' : i = 1 \/ (i - 1 \in DOMAIN stack /\ (i - 1) + 1 = i)
  BY <1>1, <1>2
<1>5. \A i \in DOMAIN stack' : Sound(files', stack'[i])
  <2>1. \A i \in DOMAIN stack : i # 1 => Sound(files', stack'[i + 1])
    <3> SUFFICES ASSUME NEW i \in DOMAIN stack, i # 1
                 PROVE  Sound(files', stack'[i + 1])
      OBVIOUS
    <3>1. Sound(files, stack[i]) /\ stack'[i + 1] = stack[i]
      BY <1>3 DEF Calls
    <3>2. files'[stack[i].object].state = "open"
      BY <3>1 DEF Sound
    <3> QED BY <3>1, <3>2, SoundKept
  <2>2. Sound(files', stack'[1]) /\ Sound(files', stack'[2])
    BY <1>2
  <2> SUFFICES ASSUME NEW i \in DOMAIN stack', i # 1, i # 2
               PROVE  Sound(files', stack'[i])
    BY <2>2
  <2>3. i - 1 \in DOMAIN stack /\ (i - 1) + 1 = i /\ i - 1 # 1
    BY <1>2, <1>4
  <2> QED BY <2>1, <2>3
<1>6. ASSUME NEW i \in DOMAIN stack, i + 1 \in DOMAIN stack
      PROVE  Link(files', stack'[i + 1], stack'[(i + 1) + 1])
  <2>1. Link(files, stack[i], stack[i + 1]) /\ stack[i].object \in DOMAIN files
    BY <1>6 DEF Calls, Sound
  <2>2. Link(files', stack[i], stack[i + 1])
    BY <2>1, LinkKept
  <2>3. i + 1 # 1 /\ stack'[(i + 1) + 1] = stack[i + 1]
    BY <1>1, <1>3, <1>6
  <2> QED BY <1>3, <1>6, <2>2, <2>3 DEF Link
<1>7. \A i \in DOMAIN stack' : i + 1 \in DOMAIN stack' => Link(files', stack'[i], stack'[i + 1])
  <2> SUFFICES ASSUME NEW i \in DOMAIN stack', i + 1 \in DOMAIN stack'
               PROVE  Link(files', stack'[i], stack'[i + 1])
    OBVIOUS
  <2>1. CASE i = 1
    BY <1>2, <2>1
  <2>2. CASE i # 1
    <3>1. i - 1 \in DOMAIN stack /\ (i - 1) + 1 = i /\ i \in DOMAIN stack
      BY <1>1, <1>2, <1>4, <2>2
    <3> QED BY <1>6, <3>1
  <2> QED BY <2>1, <2>2
<1>8. stack'[Len(stack')].pass # "second"
  BY <1>1, <1>2, <1>3 DEF Calls
<1>9. ASSUME NEW i \in DOMAIN stack', NEW j \in DOMAIN stack', i < j,
             stack'[i].object = stack'[j].object
      PROVE  j = i + 1 /\ stack'[i].pass = "second"
  <2>1. j - 1 \in DOMAIN stack /\ (j - 1) + 1 = j
    BY <1>2, <1>4, <1>9
  <2>2. stack'[j].object = stack[j - 1].object
    BY <1>3, <2>1
  <2>3. CASE i = 1
    <3>1. stack[j - 1].object = a.object
      BY <1>2, <1>9, <2>2, <2>3
    <3>2. j - 1 = 1 /\ a.pass = "second"
      BY <2>1, <3>1
    <3> QED BY <1>2, <2>1, <2>3, <3>2
  <2>4. CASE i # 1
    <3>1. i - 1 \in DOMAIN stack /\ (i - 1) + 1 = i
      BY <1>4, <2>4
    <3>2. stack'[i].object = stack[i - 1].object /\ stack'[i].pass = stack[i - 1].pass
      BY <1>3, <3>1
    <3>3. i - 1 < j - 1 /\ stack[i - 1].object = stack[j - 1].object
      BY <1>2, <1>9, <2>2, <3>2
    <3>4. j - 1 = (i - 1) + 1 /\ stack[i - 1].pass = "second"
      BY <2>1, <3>1, <3>3 DEF Calls
    <3> QED BY <1>2, <3>2, <3>4
  <2> QED BY <2>3, <2>4
<1> QED BY <1>2, <1>5, <1>7, <1>8, <1>9 DEF Calls

---------------------------------------------------------------------------
(* The result after an object has been added behind, and rules may have     *)
(* been matched.                                                            *)
Added(fs, gs, parent, pass, depth) ==
  /\ gs \in Seq(Object) /\ DOMAIN gs = 1 .. Len(fs) + 1
  /\ Grows(fs, gs)
  /\ \A o \in DOMAIN fs : gs[o].ran = fs[o].ran /\ gs[o].state = fs[o].state
  /\ LET k == gs[Len(fs) + 1]
     IN /\ k.parent = parent /\ k.pass = pass /\ k.depth = depth
        /\ k.ran = <<>> /\ k.state = "open" /\ "scan_timeout" \notin k.flags

LEMMA Appended ==
  ASSUME NEW fs \in Seq(Object), NEW parent \in Nat, NEW pass \in Passes, NEW depth \in Nat
  PROVE  Added(fs, Append(fs, NewObject(parent, pass, depth)), parent, pass, depth)
<1> DEFINE k == NewObject(parent, pass, depth)
           gs == Append(fs, k)
<1>1. /\ k \in Object /\ k.parent = parent /\ k.pass = pass /\ k.depth = depth
      /\ k.ran = <<>> /\ k.state = "open" /\ k.flags = {}
  BY DEF NewObject, Object
<1> HIDE DEF k
<1>2. /\ gs \in Seq(Object) /\ DOMAIN gs = 1 .. Len(fs) + 1 /\ gs[Len(fs) + 1] = k
      /\ \A o \in 1 .. Len(fs) : gs[o] = fs[o]
  BY <1>1, AppendAny
<1>3. DOMAIN fs = 1 .. Len(fs) /\ Len(fs) \in Nat
  OBVIOUS
<1> HIDE DEF gs
<1>4. Grows(fs, gs)
  BY <1>2, <1>3 DEF Grows
<1>5. Added(fs, gs, parent, pass, depth)
  BY <1>1, <1>2, <1>3, <1>4 DEF Added
<1> QED BY <1>5 DEF gs, k

LEMMA AddedFlagged ==
  ASSUME NEW fs \in Seq(Object), NEW gs, NEW hs, NEW parent, NEW pass, NEW depth,
         Added(fs, gs, parent, pass, depth), Flagged(gs, hs)
  PROVE  Added(fs, hs, parent, pass, depth)
<1>1. DOMAIN fs \subseteq DOMAIN gs /\ Len(fs) + 1 \in DOMAIN gs
  BY DEF Added
<1> QED BY <1>1 DEF Added, Flagged, Grows

(* The accounts once there is one more object, which came of o.             *)
LEMMA KidsAdded ==
  ASSUME NEW fs \in Seq(Object), NEW gs, NEW parent \in DOMAIN fs, NEW pass, NEW depth,
         Added(fs, gs, parent, pass, depth), \A i \in DOMAIN fs : Placed(fs, i), NEW P
  PROVE  /\ pass \in P => Kids(gs, parent, P) = Kids(fs, parent, P) \cup {Len(fs) + 1}
         /\ pass \notin P => Kids(gs, parent, P) = Kids(fs, parent, P)
         /\ \A o : o # parent => Kids(gs, o, P) = Kids(fs, o, P)
         /\ Kids(fs, Len(fs) + 1, P) = {}
<1>1. /\ DOMAIN gs = DOMAIN fs \cup {Len(fs) + 1} /\ Len(fs) + 1 \notin DOMAIN fs
      /\ DOMAIN fs = 1 .. Len(fs) /\ Len(fs) \in Nat
  BY DEF Added
<1>2. \A i \in DOMAIN fs : gs[i].parent = fs[i].parent /\ gs[i].pass = fs[i].pass
  BY DEF Added, Grows
<1>3. gs[Len(fs) + 1].parent = parent /\ gs[Len(fs) + 1].pass = pass
  BY DEF Added
<1>4. \A i \in DOMAIN fs : fs[i].parent # Len(fs) + 1
  BY <1>1 DEF Placed
<1>5. \A o : Kids(gs, o, P) = Kids(fs, o, P) \cup
               (IF o = parent /\ pass \in P THEN {Len(fs) + 1} ELSE {})
  BY <1>1, <1>2, <1>3 DEF Kids
<1>6. Kids(fs, Len(fs) + 1, P) = {}
  BY <1>4 DEF Kids
<1> QED BY <1>5, <1>6

LEMMA BalanceAdded ==
  ASSUME NEW fs \in Seq(Object), NEW gs, NEW parent \in DOMAIN fs, NEW pass, NEW depth,
         Added(fs, gs, parent, pass, depth), \A i \in DOMAIN fs : Placed(fs, i), NEW P
  PROVE  /\ \A n \in Nat : pass \in P /\ n > 0 /\ Balanced(fs, parent, P, n)
                          => Balanced(gs, parent, P, n - 1)
         /\ \A n : pass \notin P /\ Balanced(fs, parent, P, n) => Balanced(gs, parent, P, n)
         /\ \A o \in DOMAIN fs : \A n : o # parent /\ Balanced(fs, o, P, n) => Balanced(gs, o, P, n)
         /\ Balanced(gs, Len(fs) + 1, P, 0)
<1>1. /\ pass \in P => Kids(gs, parent, P) = Kids(fs, parent, P) \cup {Len(fs) + 1}
      /\ pass \notin P => Kids(gs, parent, P) = Kids(fs, parent, P)
      /\ \A o : o # parent => Kids(gs, o, P) = Kids(fs, o, P)
      /\ Kids(fs, Len(fs) + 1, P) = {}
  BY KidsAdded
<1>2. \A o \in DOMAIN fs : gs[o].ran = fs[o].ran
  BY DEF Added
<1>3. ASSUME NEW n \in Nat, pass \in P, n > 0, Balanced(fs, parent, P, n)
      PROVE  Balanced(gs, parent, P, n - 1)
  <2>1. IsFiniteSet(Kids(fs, parent, P)) /\ Cardinality(Kids(fs, parent, P)) \in Nat
    BY KidsFinite
  <2>2. Len(fs) + 1 \notin Kids(fs, parent, P)
    BY DEF Kids
  <2>3. Cardinality(Kids(fs, parent, P) \cup {Len(fs) + 1}) = Cardinality(Kids(fs, parent, P)) + 1
    BY <2>1, <2>2, FS_AddElement
  <2>4. Cardinality(Kids(gs, parent, P)) + (n - 1) = Cardinality(Kids(fs, parent, P)) + n
    <3>1. Cardinality(Kids(gs, parent, P)) = Cardinality(Kids(fs, parent, P)) + 1
      BY <1>1, <1>3, <2>3
    <3>2. \A c \in Nat : (c + 1) + (n - 1) = c + n
      OBVIOUS
    <3> QED BY <2>1, <3>1, <3>2
  <2>5. gs[parent].ran = fs[parent].ran
    BY <1>2
  <2> QED BY <1>3, <2>4, <2>5 DEF Balanced
<1>4. \A n : pass \notin P /\ Balanced(fs, parent, P, n) => Balanced(gs, parent, P, n)
  BY <1>1, <1>2 DEF Balanced
<1>5. \A o \in DOMAIN fs : \A n : o # parent /\ Balanced(fs, o, P, n) => Balanced(gs, o, P, n)
  BY <1>1, <1>2 DEF Balanced
<1>6. Balanced(gs, Len(fs) + 1, P, 0)
  <2>1. gs[Len(fs) + 1].ran = <<>> /\ Len(fs) + 1 # parent
    BY DEF Added
  <2>2. Kids(gs, Len(fs) + 1, P) = {}
    BY <1>1, <2>1
  <2>3. Yields(<<>>, P) = {}
    BY DEF Yields
  <2>4. Cardinality({}) = 0
    BY FS_EmptySet
  <2>5. Yields(gs[Len(fs) + 1].ran, P) = {}
    BY <2>1, <2>3
  <2>6. /\ Cardinality(Kids(gs, Len(fs) + 1, P)) = 0
        /\ Cardinality(Yields(gs[Len(fs) + 1].ran, P)) = 0
    BY <2>2, <2>4, <2>5, Zenon
  <2> QED BY <2>6 DEF Balanced
<1> QED BY <1>3, <1>4, <1>5, <1>6

LEMMA KidsLeft ==
  ASSUME IInv, Running, HasChild(Top)
  PROVE  Top.kids \in Nat \ {0}
<1>1. Top \in Frame
  BY Present
<1>2. Top.kids \in 0 .. MaxKids /\ Top.kids > 0
  BY <1>1 DEF Frame, HasChild
<1> QED BY <1>2, BoundsAssumption

(* What a new object does not disturb.                                      *)
LEMMA ChildCommon ==
  ASSUME IInv, Running, HasChild(Top), Added(files, files', This, Top.pass, Top.depth)
  PROVE  /\ Top.kids \in Nat \ {0} /\ Top.closing = FALSE /\ (Top.pass # "ext" => ~TooDeep(Top))
         /\ Tree' /\ DepthLimit' /\ RunsInOrder' /\ LateEntries(files') = {}
<1> DEFINE c == Len(files) + 1
<1>1. /\ stack # <<>> /\ raised = "none" /\ Top \in Frame /\ Sound(files, Top)
      /\ This = Top.object /\ This \in DOMAIN files /\ Top.closing \in BOOLEAN
      /\ Top.pass \in Passes /\ files \in Seq(Object)
  BY Present DEF IInv, TypeOK
<1>2. Top.kids \in Nat \ {0}
  BY KidsLeft
<1>3. Top.closing = FALSE /\ (Top.pass # "ext" => ~TooDeep(Top))
  BY <1>1, <1>2 DEF Sound
<1>4. /\ DOMAIN files = 1 .. Len(files) /\ Len(files) \in Nat /\ c \notin DOMAIN files
      /\ DOMAIN files' = DOMAIN files \cup {c} /\ c # 1 /\ This < c /\ files' # <<>>
      /\ files' \in Seq(Object)
  BY <1>1 DEF Added
<1>5. /\ files'[c].parent = This /\ files'[c].pass = Top.pass /\ files'[c].depth = Top.depth
      /\ files'[c].ran = <<>> /\ files'[c].state = "open"
  BY DEF Added
<1>6. \A o \in DOMAIN files :
        /\ files'[o].parent = files[o].parent /\ files'[o].pass = files[o].pass
        /\ files'[o].depth = files[o].depth /\ files[o].flags \subseteq files'[o].flags
        /\ files'[o].ran = files[o].ran /\ files'[o].state = files[o].state
  BY DEF Added, Grows
<1> HIDE DEF c
<1>7. Tree'
  <2>1. ASSUME NEW o \in DOMAIN files
        PROVE  Placed(files', o)
    <3>1. Placed(files, o)
      BY DEF IInv, Tree
    <3> QED BY <1>4, <1>6, <3>1 DEF Placed
  <2>2. Placed(files', c)
    <3>1. Top.pass = "ext" => Top.depth = files'[This].depth
      BY <1>1, <1>6 DEF Sound
    <3>2. Top.pass # "ext" => Top.depth = files'[This].depth + 1
      BY <1>1, <1>6 DEF Sound
    <3> QED BY <1>1, <1>4, <1>5, <3>1, <3>2 DEF Placed
  <2> QED BY <1>4, <2>1, <2>2 DEF Tree
<1>8. DepthLimit'
  <2>1. \A o \in DOMAIN files' :
          files'[o].depth = IF files'[o].parent = 0 THEN StartDepth
                            ELSE IF files'[o].pass = "ext" THEN files'[files'[o].parent].depth
                            ELSE files'[files'[o].parent].depth + 1
    BY <1>4, <1>7, DepthRule DEF Tree
  <2>2. ASSUME MaxDepth > 0, StartDepth <= MaxDepth, NEW o \in DOMAIN files
        PROVE  /\ files'[o].depth <= MaxDepth
               /\ (\E i \in DOMAIN files'[o].ran : files'[o].ran[i].pass # "ext")
                    => files'[o].depth < MaxDepth
               /\ files'[o].parent # 0 /\ files'[o].state = "done" /\ files'[o].depth = MaxDepth
                    => "max_depth_exceeded" \in files'[o].flags
    <3>1. /\ files[o].depth <= MaxDepth
          /\ (\E i \in DOMAIN files[o].ran : files[o].ran[i].pass # "ext")
               => files[o].depth < MaxDepth
          /\ files[o].parent # 0 /\ files[o].state = "done" /\ files[o].depth = MaxDepth
               => "max_depth_exceeded" \in files[o].flags
      BY <2>2 DEF IInv, DepthLimit
    <3> QED BY <1>6, <3>1
  <2>3. ASSUME MaxDepth > 0, StartDepth <= MaxDepth
        PROVE  files'[c].depth <= MaxDepth
    <3>1. CASE Top.pass = "ext"
      <4>1. files'[c].depth = files[This].depth
        BY <1>1, <1>5, <3>1 DEF Sound
      <4> QED BY <1>1, <2>3, <4>1 DEF IInv, DepthLimit
    <3>2. CASE Top.pass # "ext"
      <4>1. ~(Top.depth > MaxDepth) /\ Top.depth \in Nat
        BY <1>1, <1>3, <2>3, <3>2 DEF TooDeep, Frame
      <4>2. Top.depth <= MaxDepth
        BY <4>1, DepthAssumption
      <4> QED BY <1>5, <4>2
    <3> QED BY <3>1, <3>2
  <2>4. files'[c].state # "done" /\ DOMAIN files'[c].ran = {}
    BY <1>5
  <2> QED BY <1>4, <2>1, <2>2, <2>3, <2>4 DEF DepthLimit
<1>9. RunsInOrder'
  <2>1. DOMAIN files'[c].ran = {}
    BY <1>5
  <2> QED BY <1>4, <1>6, <2>1, SMTT(30) DEF IInv, RunsInOrder
<1>10. LateEntries(files') = {}
  <2>1. LateEntries(files) = {}
    BY <1>1 DEF IInv, Lateness
  <2>2. DOMAIN files'[c].ran = {}
    BY <1>5
  <2>3. {<<c, i>> : i \in {j \in DOMAIN files'[c].ran :
          files'[c].ran[j].late /\ files'[c].ran[j].pass = "first"}} = {}
    BY <2>2
  <2>4. \A o \in DOMAIN files : files'[o].ran = files[o].ran
    BY <1>6
  <2>5. LateEntries(files') \subseteq LateEntries(files)
    <3> SUFFICES ASSUME NEW o \in DOMAIN files', NEW x \in {<<o, i>> : i \in {j \in DOMAIN files'[o].ran :
                          files'[o].ran[j].late /\ files'[o].ran[j].pass = "first"}}
                 PROVE  x \in LateEntries(files)
      BY DEF LateEntries
    <3>1. o \in DOMAIN files
      BY <1>4, <2>3
    <3> QED BY <2>4, <3>1 DEF LateEntries
  <2> QED BY <2>1, <2>5
<1> QED BY <1>2, <1>3, <1>7, <1>8, <1>9, <1>10

(* The present call without the object it hands on.                         *)
OneLess(f, g) ==
  /\ g \in Frame /\ g.object = f.object /\ g.pass = f.pass /\ g.depth = f.depth
  /\ g.queue = f.queue /\ g.rank = f.rank /\ g.next = f.next /\ g.seen = f.seen
  /\ g.kids = f.kids - 1 /\ g.closing = f.closing

LEMMA OneKidLess ==
  ASSUME NEW f \in Frame, f.kids \in Nat \ {0}, NEW g, g = [f EXCEPT !.kids = @ - 1]
  PROVE  OneLess(f, g)
<1>1. f.kids - 1 \in 0 .. MaxKids
  <2>1. f.kids \in 0 .. MaxKids
    BY DEF Frame
  <2> QED BY <2>1, BoundsAssumption
<1> QED BY <1>1 DEF Frame, OneLess

LEMMA ChildBalances ==
  ASSUME IInv, Running, HasChild(Top), Added(files, files', This, Top.pass, Top.depth)
  PROVE  /\ \A o \in DOMAIN files' : files'[o].state = "done" =>
              /\ Balanced(files', o, Passes, 0)
              /\ \A k \in Kids(files', o, Passes) : files'[k].state = "done"
         /\ \A i \in DOMAIN stack : i # 1 => LET f == stack[i] IN
              /\ ~f.closing => Balanced(files', f.object, Passes, f.kids)
              /\ f.closing /\ (i = 1 \/ stack[i - 1].pass # "second")
                   => Balanced(files', f.object, Passes, 0)
              /\ f.pass = "first" => Balanced(files', f.object, {"first"}, f.kids)
              /\ f.pass = "second" => Balanced(files', f.object, {"first"}, 0)
         /\ Balanced(files', This, Passes, Top.kids - 1)
         /\ Top.pass = "first" => Balanced(files', This, {"first"}, Top.kids - 1)
         /\ Top.pass = "second" => Balanced(files', This, {"first"}, 0)
         /\ \A i \in DOMAIN stack : \A k \in Kids(files', stack[i].object, Passes) :
              \/ files'[k].state = "done"
              \/ \E j \in 1 .. i - 1 : stack[j].object = k
              \/ k = Len(files) + 1 /\ stack[i].object = This
<1> DEFINE c == Len(files) + 1
<1>1. /\ stack # <<>> /\ raised = "none" /\ Sound(files, Top) /\ 1 \in DOMAIN stack /\ stack[1] = Top
      /\ This = Top.object /\ This \in DOMAIN files /\ Top.pass \in Passes /\ files \in Seq(Object)
  BY Present DEF IInv, TypeOK
<1>2. Top.kids \in Nat \ {0} /\ Top.closing = FALSE
  BY ChildCommon
<1>3. \A i \in DOMAIN files : Placed(files, i)
  BY DEF IInv, Tree
<1>4. ASSUME NEW P
      PROVE  /\ \A n \in Nat : Top.pass \in P /\ n > 0 /\ Balanced(files, This, P, n)
                              => Balanced(files', This, P, n - 1)
             /\ \A n : Top.pass \notin P /\ Balanced(files, This, P, n)
                       => Balanced(files', This, P, n)
             /\ \A o \in DOMAIN files : \A n : o # This /\ Balanced(files, o, P, n)
                                           => Balanced(files', o, P, n)
  <2> DEFINE fs == files
             gs == files'
             parent == This
             pass == Top.pass
             depth == Top.depth
  <2>1. /\ fs \in Seq(Object) /\ parent \in DOMAIN fs /\ Added(fs, gs, parent, pass, depth)
        /\ \A i \in DOMAIN fs : Placed(fs, i)
    BY <1>1, <1>3
  <2> HIDE DEF fs, gs, parent, pass, depth
  <2>2. /\ \A n \in Nat : pass \in P /\ n > 0 /\ Balanced(fs, parent, P, n)
                         => Balanced(gs, parent, P, n - 1)
        /\ \A n : pass \notin P /\ Balanced(fs, parent, P, n) => Balanced(gs, parent, P, n)
        /\ \A o \in DOMAIN fs : \A n : o # parent /\ Balanced(fs, o, P, n) => Balanced(gs, o, P, n)
    BY <2>1, BalanceAdded
  <2> QED BY <2>2 DEF fs, gs, parent, pass
<1>5. ASSUME NEW P
      PROVE  /\ Top.pass \in P => Kids(files', This, P) = Kids(files, This, P) \cup {c}
             /\ \A o : o # This => Kids(files', o, P) = Kids(files, o, P)
  <2> DEFINE fs == files
             gs == files'
             parent == This
             pass == Top.pass
             depth == Top.depth
  <2>1. /\ fs \in Seq(Object) /\ parent \in DOMAIN fs /\ Added(fs, gs, parent, pass, depth)
        /\ \A i \in DOMAIN fs : Placed(fs, i)
    BY <1>1, <1>3
  <2> HIDE DEF fs, gs, parent, pass, depth
  <2>2. /\ pass \in P => Kids(gs, parent, P) = Kids(fs, parent, P) \cup {Len(fs) + 1}
        /\ pass \notin P => Kids(gs, parent, P) = Kids(fs, parent, P)
        /\ \A o : o # parent => Kids(gs, o, P) = Kids(fs, o, P)
        /\ Kids(fs, Len(fs) + 1, P) = {}
    BY <2>1, KidsAdded
  <2> QED BY <2>2 DEF fs, gs, parent, pass
<1>6. /\ DOMAIN files' = DOMAIN files \cup {c} /\ files'[c].state = "open"
      /\ \A o \in DOMAIN files : files'[o].state = files[o].state
  BY <1>1 DEF Added
<1>7. \A o, P : Kids(files, o, P) \subseteq DOMAIN files
  BY DEF Kids
<1> HIDE DEF c
<1>8. ASSUME NEW o \in DOMAIN files', files'[o].state = "done"
      PROVE  /\ Balanced(files', o, Passes, 0)
             /\ \A k \in Kids(files', o, Passes) : files'[k].state = "done"
  <2>1. o \in DOMAIN files /\ o # This /\ files[o].state = "done"
    BY <1>1, <1>6, <1>8 DEF Sound
  <2>2. Balanced(files, o, Passes, 0) /\ \A k \in Kids(files, o, Passes) : files[k].state = "done"
    BY <2>1 DEF IInv, Accounts
  <2>3. Balanced(files', o, Passes, 0)
    BY <1>4, <2>1, <2>2
  <2>4. \A k \in Kids(files', o, Passes) : files'[k].state = "done"
    BY <1>5, <1>6, <1>7, <2>1, <2>2
  <2> QED BY <2>3, <2>4
<1>9. ASSUME NEW i \in DOMAIN stack, i # 1
      PROVE  LET f == stack[i] IN
             /\ ~f.closing => Balanced(files', f.object, Passes, f.kids)
             /\ f.closing /\ (i = 1 \/ stack[i - 1].pass # "second")
                  => Balanced(files', f.object, Passes, 0)
             /\ f.pass = "first" => Balanced(files', f.object, {"first"}, f.kids)
             /\ f.pass = "second" => Balanced(files', f.object, {"first"}, 0)
  <2> DEFINE f == stack[i]
  <2>1. /\ ~f.closing => Balanced(files, f.object, Passes, f.kids)
        /\ f.closing /\ (i = 1 \/ stack[i - 1].pass # "second")
             => Balanced(files, f.object, Passes, 0)
        /\ f.pass = "first" => Balanced(files, f.object, {"first"}, f.kids)
        /\ f.pass = "second" => Balanced(files, f.object, {"first"}, 0)
    BY DEF IInv, Accounts
  <2>2. Sound(files, f) /\ f.object \in DOMAIN files
    BY DEF IInv, Calls, Sound
  <2>3. CASE f.object # This
    BY <1>4, <2>1, <2>2, <2>3
  <2>4. CASE f.object = This
    <3>1. i = 2 /\ Top.pass = "second" /\ f.closing
      BY <1>9, <2>4, SameObject DEF IInv
    <3>2. f.pass = "first" /\ f.kids = 0 /\ stack[i - 1].pass = "second"
      BY <1>1, <2>2, <3>1 DEF Sound
    <3>3. Balanced(files', This, {"first"}, 0)
      BY <1>4, <2>1, <2>4, <3>1, <3>2
    <3> QED BY <2>4, <3>1, <3>2, <3>3
  <2> QED BY <2>3, <2>4
<1>10. /\ Balanced(files, This, Passes, Top.kids)
       /\ Top.pass = "first" => Balanced(files, This, {"first"}, Top.kids)
       /\ Top.pass = "second" => Balanced(files, This, {"first"}, 0)
  BY <1>1, <1>2 DEF IInv, Accounts
<1>11. /\ Balanced(files', This, Passes, Top.kids - 1)
       /\ Top.pass = "first" => Balanced(files', This, {"first"}, Top.kids - 1)
       /\ Top.pass = "second" => Balanced(files', This, {"first"}, 0)
  <2>1. Balanced(files', This, Passes, Top.kids - 1)
    BY <1>1, <1>2, <1>4, <1>10
  <2>2. Top.pass = "first" => Balanced(files', This, {"first"}, Top.kids - 1)
    BY <1>2, <1>4, <1>10
  <2>3. Top.pass = "second" => Balanced(files', This, {"first"}, 0)
    BY <1>4, <1>10
  <2> QED BY <2>1, <2>2, <2>3
<1>12. ASSUME NEW i \in DOMAIN stack, NEW k \in Kids(files', stack[i].object, Passes)
       PROVE  \/ files'[k].state = "done"
              \/ \E j \in 1 .. i - 1 : stack[j].object = k
              \/ k = c /\ stack[i].object = This
  <2>1. \/ k \in Kids(files, stack[i].object, Passes)
        \/ k = c /\ stack[i].object = This
    BY <1>1, <1>5
  <2>2. ASSUME k \in Kids(files, stack[i].object, Passes)
        PROVE  files'[k].state = "done" \/ \E j \in 1 .. i - 1 : stack[j].object = k
    <3>1. files[k].state = "done" \/ \E j \in 1 .. i - 1 : stack[j].object = k
      BY <1>1, <2>2 DEF IInv, Accounts
    <3> QED BY <1>6, <1>7, <2>2, <3>1
  <2> QED BY <2>1, <2>2
<1> QED BY <1>8, <1>9, <1>11, <1>12 DEF c

(* The matching of the rules has failed, or the timer fired in it.          *)
LEMMA ChildFailed ==
  ASSUME IInv, Running, HasChild(Top), Added(files, files', This, Top.pass, Top.depth),
         NEW g, OneLess(Top, g), stack' = <<g>> \o Tail(stack),
         raised' \in {"error", "scan_timeout"}, UNCHANGED <<late, outcome>>
  PROVE  IInv'
<1>2. /\ stack # <<>> /\ raised = "none" /\ Top \in Frame /\ Sound(files, Top)
      /\ 1 \in DOMAIN stack /\ stack[1] = Top /\ This = Top.object /\ This \in DOMAIN files
      /\ stack \in Seq(Frame) /\ DOMAIN stack = 1 .. Len(stack) /\ Len(stack) \in Nat
  BY Present DEF IInv, TypeOK
<1>3. /\ Top.kids \in Nat \ {0} /\ Top.closing = FALSE /\ (Top.pass # "ext" => ~TooDeep(Top))
      /\ Tree' /\ DepthLimit' /\ RunsInOrder' /\ LateEntries(files') = {}
  BY ChildCommon
<1>4. /\ g \in Frame /\ g.object = Top.object /\ g.pass = Top.pass /\ g.depth = Top.depth
      /\ g.queue = Top.queue /\ g.rank = Top.rank /\ g.next = Top.next /\ g.seen = Top.seen
      /\ g.kids = Top.kids - 1 /\ g.closing = FALSE
  BY <1>3 DEF OneLess
<1>6. /\ stack' \in Seq(Frame) /\ stack' # <<>> /\ DOMAIN stack' = DOMAIN stack
      /\ stack'[1] = g /\ \A i \in DOMAIN stack : i # 1 => stack'[i] = stack[i]
  BY <1>2, <1>4, Replaced
<1>7. /\ files' \in Seq(Object) /\ DOMAIN files' = DOMAIN files \cup {Len(files) + 1}
      /\ Grows(files, files') /\ files'[Len(files) + 1].ran = <<>>
      /\ files'[Len(files) + 1].pass = Top.pass
      /\ files'[Len(files) + 1].state = "open" /\ "scan_timeout" \notin files'[Len(files) + 1].flags
      /\ \A o \in DOMAIN files : files'[o].state = files[o].state /\ files'[o].ran = files[o].ran
  BY DEF IInv, TypeOK, Added
<1>8. TypeOK'
  <2>1. late' \in BOOLEAN /\ outcome' \in {"running", "none", "scan_timeout", "quit", "error"}
    BY DEF IInv, TypeOK
  <2>2. raised' \in {"none", "scan_timeout", "quit", "error"}
    OBVIOUS
  <2> QED BY <1>6, <1>7, <2>1, <2>2 DEF TypeOK
<1>9. Calls'
  <2>1. Sound(files', g)
    <3>1. g.pass # "ext" => ~TooDeep(g)
      BY <1>3, <1>4 DEF TooDeep
    <3> QED BY <1>2, <1>4, <1>7, <3>1 DEF Sound, Grows
  <2> QED BY <1>2, <1>4, <1>7, <2>1, CallsInPlace DEF IInv
<1>10. Fitting'
  BY DEF Fitting
<1>11. Course'
  <2>1. outcome' = "running" /\ \A o \in DOMAIN files' : files'[o].state # "cut"
    BY <1>2, <1>7 DEF IInv, Course
  <2>2. \A i \in DOMAIN stack : stack'[i].object = stack[i].object
    BY <1>2, <1>4, <1>6
  <2>3. \A o \in DOMAIN files' :
          files'[o].state = "open" /\ (\A i \in DOMAIN stack' : stack'[i].object # o)
            => files'[o].ran = <<>>
    <3> SUFFICES ASSUME NEW o \in DOMAIN files', files'[o].state = "open",
                        \A i \in DOMAIN stack' : stack'[i].object # o
                 PROVE  files'[o].ran = <<>>
      OBVIOUS
    <3>1. CASE o = Len(files) + 1
      BY <1>7, <3>1
    <3>2. CASE o # Len(files) + 1
      <4>1. o \in DOMAIN files /\ files[o].state = "open" /\ files'[o].ran = files[o].ran
        BY <1>7, <3>2
      <4>2. \A i \in DOMAIN stack : stack[i].object # o
        BY <1>6, <2>2
      <4> QED BY <4>1, <4>2 DEF IInv, Course
    <3> QED BY <3>1, <3>2
  <2>4. \A o \in DOMAIN files' : "scan_timeout" \in files'[o].flags => files'[o].state = "cut"
    BY <1>7 DEF IInv, Course, Grows
  <2> QED BY <2>1, <2>3, <2>4 DEF Course
<1>12. Lateness'
  <2>1. Cardinality({}) = 0
    BY FS_EmptySet
  <2>2. Cardinality(LateEntries(files')) = 0
    BY <1>3, <2>1, Zenon
  <2>3. Cardinality(LateEntries(files')) <= 1
    BY <2>2
  <2> QED BY <1>3, <2>3 DEF Lateness, LateStarts, LateEntries
<1>13. Accounts'
  <2>1. \A i \in DOMAIN stack : stack'[i].object = stack[i].object /\ stack'[i].pass = stack[i].pass
    BY <1>2, <1>4, <1>6
  <2>2. \A o \in DOMAIN files' : files'[o].state = "done" =>
          /\ Balanced(files', o, Passes, 0)
          /\ \A k \in Kids(files', o, Passes) : files'[k].state = "done"
    BY ChildBalances
  <2>3. ASSUME NEW i \in DOMAIN stack'
        PROVE  LET f == stack'[i] IN
               /\ ~f.closing => Balanced(files', f.object, Passes, f.kids)
               /\ f.closing /\ (i = 1 \/ stack'[i - 1].pass # "second")
                    => Balanced(files', f.object, Passes, 0)
               /\ f.pass = "first" => Balanced(files', f.object, {"first"}, f.kids)
               /\ f.pass = "second" => Balanced(files', f.object, {"first"}, 0)
    <3>1. CASE i = 1
      <4>1. /\ Balanced(files', This, Passes, Top.kids - 1)
            /\ Top.pass = "first" => Balanced(files', This, {"first"}, Top.kids - 1)
            /\ Top.pass = "second" => Balanced(files', This, {"first"}, 0)
        BY ChildBalances
      <4> QED BY <1>2, <1>4, <1>6, <3>1, <4>1
    <3>2. CASE i # 1
      <4>1. i \in DOMAIN stack /\ i - 1 \in DOMAIN stack /\ stack'[i] = stack[i]
        BY <1>2, <1>6, <3>2
      <4>2. stack'[i - 1].pass = stack[i - 1].pass
        BY <2>1, <4>1
      <4>3. LET f == stack[i] IN
              /\ ~f.closing => Balanced(files', f.object, Passes, f.kids)
              /\ f.closing /\ (i = 1 \/ stack[i - 1].pass # "second")
                   => Balanced(files', f.object, Passes, 0)
              /\ f.pass = "first" => Balanced(files', f.object, {"first"}, f.kids)
              /\ f.pass = "second" => Balanced(files', f.object, {"first"}, 0)
        BY <3>2, <4>1, ChildBalances
      <4> QED BY <4>1, <4>2, <4>3
    <3> QED BY <3>1, <3>2
  <2>4. ASSUME NEW i \in DOMAIN stack', NEW k \in Kids(files', stack'[i].object, Passes)
        PROVE  \/ files'[k].state = "done"
               \/ \E j \in 1 .. i - 1 : stack'[j].object = k
               \/ /\ raised' # "none" /\ ~stack'[1].closing
                  /\ stack'[1].object = stack'[i].object /\ files'[k].pass = stack'[1].pass
    <3>1. i \in DOMAIN stack /\ k \in Kids(files', stack[i].object, Passes)
      BY <1>6, <2>1
    <3>2. \/ files'[k].state = "done"
          \/ \E j \in 1 .. i - 1 : stack[j].object = k
          \/ k = Len(files) + 1 /\ stack[i].object = This
      BY <3>1, ChildBalances
    <3>3. \A j \in 1 .. i - 1 : stack'[j].object = stack[j].object
      BY <1>2, <2>1, <3>1
    <3>4. CASE \E j \in 1 .. i - 1 : stack[j].object = k
      BY <3>3, <3>4
    <3>5. CASE k = Len(files) + 1 /\ stack[i].object = This
      <4>1. raised' # "none" /\ ~stack'[1].closing
        BY <1>3, <1>4, <1>6
      <4>2. stack'[1].object = stack'[i].object
        BY <1>2, <1>4, <1>6, <2>1, <3>1, <3>5
      <4>3. files'[k].pass = stack'[1].pass
        BY <1>4, <1>6, <1>7, <3>5
      <4> QED BY <4>1, <4>2, <4>3
    <3> QED BY <3>2, <3>4, <3>5
  <2> QED BY <2>2, <2>3, <2>4 DEF Accounts
<1> QED BY <1>3, <1>8, <1>9, <1>10, <1>11, <1>12, <1>13 DEF IInv

LEMMA Shifted ==
  ASSUME stack \in Seq(Frame), stack # <<>>, NEW a \in Frame, NEW b \in Frame,
         b.object = Top.object, b.pass = Top.pass, stack' = <<a, b>> \o Tail(stack),
         NEW i \in DOMAIN stack', i # 1
  PROVE  /\ i - 1 \in DOMAIN stack /\ (i - 1) + 1 = i
         /\ stack'[i].object = stack[i - 1].object
         /\ stack'[i].pass = stack[i - 1].pass
         /\ i # 2 => stack'[i] = stack[i - 1]
<1>1. /\ DOMAIN stack' = 1 .. Len(stack) + 1 /\ stack'[2] = b
      /\ \A j \in 3 .. Len(stack) + 1 : stack'[j] = stack[j - 1]
  BY Pushed
<1>2. DOMAIN stack = 1 .. Len(stack) /\ Len(stack) \in Nat \ {0}
  BY FirstOf
<1>3. i - 1 \in DOMAIN stack /\ (i - 1) + 1 = i /\ (i = 2 \/ i \in 3 .. Len(stack) + 1)
  BY <1>1, <1>2
<1>4. i = 2 => i - 1 = 1
  OBVIOUS
<1> QED BY <1>1, <1>3, <1>4 DEF Top

(* The object is scanned.                                                   *)
LEMMA ChildStarted ==
  ASSUME IInv, Running, HasChild(Top), Added(files, files', This, Top.pass, Top.depth),
         NEW g, OneLess(Top, g), NEW a \in Frame, stack' = <<a, g>> \o Tail(stack),
         a.object = Len(files) + 1, a.pass = "first", a.depth = Top.depth + 1, a.rank = 0,
         a.next = <<>>, a.kids = 0, a.closing = FALSE, UNCHANGED <<raised, late, outcome>>
  PROVE  IInv'
<1> DEFINE c == Len(files) + 1
<1>1. /\ stack # <<>> /\ raised = "none" /\ Top \in Frame /\ Sound(files, Top)
      /\ 1 \in DOMAIN stack /\ stack[1] = Top /\ This = Top.object /\ This \in DOMAIN files
      /\ stack \in Seq(Frame) /\ DOMAIN stack = 1 .. Len(stack) /\ Len(stack) \in Nat \ {0}
  BY Present, FirstOf DEF IInv, TypeOK
<1>2. /\ Top.kids \in Nat \ {0} /\ Top.closing = FALSE /\ (Top.pass # "ext" => ~TooDeep(Top))
      /\ Tree' /\ DepthLimit' /\ RunsInOrder' /\ LateEntries(files') = {}
  BY ChildCommon
<1>3. /\ g \in Frame /\ g.object = Top.object /\ g.pass = Top.pass /\ g.depth = Top.depth
      /\ g.queue = Top.queue /\ g.rank = Top.rank /\ g.next = Top.next /\ g.seen = Top.seen
      /\ g.kids = Top.kids - 1 /\ g.closing = FALSE
  BY <1>2 DEF OneLess
<1>4. /\ stack' \in Seq(Frame) /\ stack' # <<>> /\ DOMAIN stack' = 1 .. Len(stack) + 1
      /\ stack'[1] = a /\ stack'[2] = g
      /\ \A i \in 3 .. Len(stack) + 1 : stack'[i] = stack[i - 1]
  BY <1>1, <1>3, Pushed
<1>5. /\ files' \in Seq(Object) /\ DOMAIN files' = DOMAIN files \cup {c} /\ c \notin DOMAIN files
      /\ Grows(files, files') /\ files'[c].ran = <<>> /\ files'[c].depth = Top.depth
      /\ files'[c].parent = This /\ files'[c].pass = Top.pass
      /\ files'[c].state = "open" /\ "scan_timeout" \notin files'[c].flags
      /\ \A o \in DOMAIN files : files'[o].state = files[o].state /\ files'[o].ran = files[o].ran
  BY DEF IInv, TypeOK, Added
<1> HIDE DEF c
<1>6. ASSUME NEW i \in DOMAIN stack', i # 1
      PROVE  /\ i - 1 \in DOMAIN stack /\ (i - 1) + 1 = i
             /\ stack'[i].object = stack[i - 1].object
             /\ stack'[i].pass = stack[i - 1].pass
             /\ i # 2 => stack'[i] = stack[i - 1]
  BY <1>1, <1>3, <1>6, Shifted
<1>7. TypeOK'
  BY <1>4, <1>5 DEF IInv, TypeOK
<1>8. Calls'
  <2>1. Sound(files', g)
    <3>1. g.pass # "ext" => ~TooDeep(g)
      BY <1>2, <1>3 DEF TooDeep
    <3> QED BY <1>1, <1>3, <1>5, <3>1 DEF Sound, Grows
  <2>2. Sound(files', a)
    <3>1. \A r \in a.queue : Priority[r] \in Nat
      BY RulesAssumption DEF Frame
    <3> QED BY <1>5, <3>1 DEF Sound, c
  <2>3. Link(files', a, g)
    BY <1>1, <1>3, <1>5 DEF Link, c
  <2>4. \A i \in DOMAIN stack : stack[i].object # a.object
    BY <1>5 DEF IInv, Calls, Sound, c
  <2>5. \A o \in DOMAIN files : files'[o].state = files[o].state
    BY <1>5
  <2>6. TypeOK /\ Calls /\ Grows(files, files')
    BY <1>5 DEF IInv
  <2> QED BY <1>1, <1>3, <2>1, <2>2, <2>3, <2>4, <2>5, <2>6, CallsPushed
<1>9. Fitting'
  <2> SUFFICES ASSUME NEW i \in DOMAIN stack'
               PROVE  Fit(files'[stack'[i].object].ran, stack'[i])
    BY Zenon DEF Fitting
  <2>1. CASE i = 1
    <3>1. DOMAIN files'[stack'[i].object].ran = {}
      BY <1>4, <1>5, <2>1 DEF c
    <3> QED BY <3>1 DEF Fit
  <2>2. CASE i # 1
    <3>1. /\ i - 1 \in DOMAIN stack /\ stack'[i].object = stack[i - 1].object
          /\ (stack'[i] = stack[i - 1] \/ (i = 2 /\ stack[i - 1] = Top /\ stack'[i] = g))
      BY <1>1, <1>4, <1>6, <2>2
    <3>2. Fit(files[stack[i - 1].object].ran, stack[i - 1])
      BY <1>1, <3>1 DEF IInv, Fitting
    <3>3. stack[i - 1].object \in DOMAIN files
      <4>1. Calls
        BY DEF IInv
      <4>2. \A j \in DOMAIN stack : Sound(files, stack[j])
        BY <4>1, Zenon DEF Calls
      <4>3. Sound(files, stack[i - 1])
        BY <3>1, <4>2, Zenon
      <4> QED BY <4>3 DEF Sound
    <3>4. Fit(files[stack[i - 1].object].ran, stack'[i])
      BY <1>2, <1>3, <3>1, <3>2 DEF Fit
    <3> QED BY <1>5, <3>1, <3>3, <3>4
  <2> QED BY <2>1, <2>2, Zenon
<1>10. Course'
  <2>1. outcome' = "running" /\ \A o \in DOMAIN files' : files'[o].state # "cut"
    BY <1>1, <1>5 DEF IInv, Course
  <2>2. \A i \in DOMAIN stack : i + 1 \in DOMAIN stack' /\ stack'[i + 1].object = stack[i].object
    <3> SUFFICES ASSUME NEW i \in DOMAIN stack
                 PROVE  i + 1 \in DOMAIN stack' /\ stack'[i + 1].object = stack[i].object
      OBVIOUS
    <3>1. i + 1 \in DOMAIN stack' /\ i + 1 # 1 /\ (i + 1) - 1 = i
      BY <1>1, <1>4
    <3> QED BY <1>6, <3>1
  <2>3. \A o \in DOMAIN files' :
          files'[o].state = "open" /\ (\A i \in DOMAIN stack' : stack'[i].object # o)
            => files'[o].ran = <<>>
    <3> SUFFICES ASSUME NEW o \in DOMAIN files', files'[o].state = "open",
                        \A i \in DOMAIN stack' : stack'[i].object # o
                 PROVE  files'[o].ran = <<>>
      OBVIOUS
    <3>1. CASE o = c
      BY <1>5, <3>1
    <3>2. CASE o # c
      <4>1. o \in DOMAIN files /\ files[o].state = "open" /\ files'[o].ran = files[o].ran
        BY <1>5, <3>2
      <4>2. \A i \in DOMAIN stack : stack[i].object # o
        BY <2>2
      <4> QED BY <4>1, <4>2 DEF IInv, Course
    <3> QED BY <3>1, <3>2
  <2>4. \A o \in DOMAIN files' : "scan_timeout" \in files'[o].flags => files'[o].state = "cut"
    BY <1>5 DEF IInv, Course, Grows
  <2> QED BY <2>1, <2>3, <2>4 DEF Course
<1>11. Lateness'
  <2>1. Cardinality({}) = 0
    BY FS_EmptySet
  <2>2. Cardinality(LateEntries(files')) = 0
    BY <1>2, <2>1, Zenon
  <2>3. Cardinality(LateEntries(files')) <= 1
    BY <2>2
  <2> QED BY <1>2, <2>3 DEF Lateness, LateStarts, LateEntries
<1>12. Accounts'
  <2>1. \A o \in DOMAIN files' : files'[o].state = "done" =>
          /\ Balanced(files', o, Passes, 0)
          /\ \A k \in Kids(files', o, Passes) : files'[k].state = "done"
    BY ChildBalances
  <2>2. ASSUME NEW i \in DOMAIN stack'
        PROVE  LET f == stack'[i] IN
               /\ ~f.closing => Balanced(files', f.object, Passes, f.kids)
               /\ f.closing /\ (i = 1 \/ stack'[i - 1].pass # "second")
                    => Balanced(files', f.object, Passes, 0)
               /\ f.pass = "first" => Balanced(files', f.object, {"first"}, f.kids)
               /\ f.pass = "second" => Balanced(files', f.object, {"first"}, 0)
    <3>1. CASE i = 1
      <4>1. \A P : Balanced(files', c, P, 0)
        <5>1. \A k \in DOMAIN files : Placed(files, k)
          BY DEF IInv, Tree
        <5>2. files \in Seq(Object)
          BY DEF IInv, TypeOK
        <5> SUFFICES ASSUME NEW P
                     PROVE  Balanced(files', c, P, 0)
          OBVIOUS
        <5> DEFINE fs == files
                   gs == files'
                   parent == This
                   pass == Top.pass
                   depth == Top.depth
        <5>3. /\ fs \in Seq(Object) /\ parent \in DOMAIN fs /\ Added(fs, gs, parent, pass, depth)
              /\ \A k \in DOMAIN fs : Placed(fs, k)
          BY <1>1, <5>1, <5>2
        <5> HIDE DEF fs, gs, parent, pass, depth
        <5>4. Balanced(gs, Len(fs) + 1, P, 0)
          BY <5>3, BalanceAdded
        <5> QED BY <5>4 DEF fs, gs, c
      <4> QED BY <1>4, <3>1, <4>1 DEF c
    <3>2. CASE i = 2
      <4>1. /\ Balanced(files', This, Passes, Top.kids - 1)
            /\ Top.pass = "first" => Balanced(files', This, {"first"}, Top.kids - 1)
            /\ Top.pass = "second" => Balanced(files', This, {"first"}, 0)
        BY ChildBalances
      <4> QED BY <1>1, <1>3, <1>4, <3>2, <4>1
    <3>3. CASE i # 1 /\ i # 2
      <4>1. /\ i - 1 \in DOMAIN stack /\ i - 1 # 1
            /\ stack'[i] = stack[i - 1] /\ stack'[i - 1].pass = stack[(i - 1) - 1].pass
        <5>1. i - 1 \in DOMAIN stack' /\ i - 1 # 1
          BY <1>1, <1>4, <3>3
        <5> QED BY <1>6, <3>3, <5>1
      <4>2. LET f == stack[i - 1] IN
              /\ ~f.closing => Balanced(files', f.object, Passes, f.kids)
              /\ f.closing /\ (i - 1 = 1 \/ stack[(i - 1) - 1].pass # "second")
                   => Balanced(files', f.object, Passes, 0)
              /\ f.pass = "first" => Balanced(files', f.object, {"first"}, f.kids)
              /\ f.pass = "second" => Balanced(files', f.object, {"first"}, 0)
        BY <4>1, ChildBalances
      <4> QED BY <3>3, <4>1, <4>2
    <3> QED BY <3>1, <3>2, <3>3
  <2>3. ASSUME NEW i \in DOMAIN stack', NEW k \in Kids(files', stack'[i].object, Passes)
        PROVE  \/ files'[k].state = "done"
               \/ \E j \in 1 .. i - 1 : stack'[j].object = k
    <3>1. CASE i = 1
      <4>1. k \in DOMAIN files' /\ files'[k].parent = c
        BY <1>4, <3>1 DEF Kids, c
      <4>2. Placed(files', k) /\ DOMAIN files' \subseteq Nat /\ \A o \in DOMAIN files' : o <= c
        BY <1>1, <1>2, <1>5, <4>1 DEF Tree, Added, c
      <4> QED BY <1>5, <4>1, <4>2 DEF Placed, Added, c
    <3>2. CASE i # 1
      <4>1. i - 1 \in DOMAIN stack /\ (i - 1) + 1 = i /\ stack'[i].object = stack[i - 1].object
        BY <1>6, <3>2
      <4>2. \/ files'[k].state = "done"
            \/ \E j \in 1 .. (i - 1) - 1 : stack[j].object = k
            \/ k = c
        BY <4>1, ChildBalances DEF c
      <4>3. CASE k = c
        BY <1>1, <1>4, <3>2, <4>1, <4>3 DEF c
      <4>4. ASSUME NEW j \in 1 .. (i - 1) - 1, stack[j].object = k
            PROVE  \E m \in 1 .. i - 1 : stack'[m].object = k
        <5>1. j + 1 \in DOMAIN stack' /\ j + 1 # 1 /\ (j + 1) - 1 = j /\ j + 1 \in 1 .. i - 1
          BY <1>1, <1>4, <4>1, SMTT(30)
        <5>2. stack'[j + 1].object = stack[j].object
          BY <1>6, <5>1
        <5> QED BY <4>4, <5>1, <5>2
      <4> QED BY <4>2, <4>3, <4>4
    <3> QED BY <3>1, <3>2
  <2> QED BY <2>1, <2>2, <2>3 DEF Accounts
<1> QED BY <1>2, <1>7, <1>8, <1>9, <1>10, <1>11, <1>12 DEF IInv

LEMMA DispatchChildStep ==
  ASSUME IInv, DispatchChild
  PROVE  IInv'
<1> DEFINE grown == Append(files, NewObject(This, Top.pass, Top.depth))
           c == Len(grown)
           rest == [Top EXCEPT !.kids = @ - 1]
<1>1. Running /\ HasChild(Top) /\ UNCHANGED <<late, outcome>>
  BY DEF DispatchChild
<1>2. /\ stack # <<>> /\ raised = "none" /\ Top \in Frame /\ This \in DOMAIN files
      /\ Top.pass \in Passes /\ files \in Seq(Object) /\ Top.kids \in Nat \ {0}
  BY <1>1, Present, KidsLeft DEF IInv, TypeOK
<1>3. Added(files, grown, This, Top.pass, Top.depth)
  <2>1. This \in Nat /\ Top.depth \in Nat
    BY <1>2 DEF Frame
  <2> QED BY <1>2, <2>1, Appended
<1>4. grown \in Seq(Object) /\ c = Len(files) + 1 /\ c \in DOMAIN grown
  BY <1>2, <1>3 DEF Added
<1>5. OneLess(Top, rest)
  BY <1>2, OneKidLess
<1>6. \/ \E rules \in SUBSET FirstRules :
           /\ stack' = <<FirstFrame(c, Top.depth, rules), rest>> \o Tail(stack)
           /\ files' = Matched(grown, c, rules)
           /\ raised' = raised
      \/ /\ stack' = <<rest>> \o Tail(stack)
         /\ files' = grown
         /\ raised' \in {"error", "scan_timeout"}
  BY DEF DispatchChild, Goto
<1> HIDE DEF grown, c, rest
<1>7. ASSUME NEW rules \in SUBSET FirstRules,
             stack' = <<FirstFrame(c, Top.depth, rules), rest>> \o Tail(stack),
             files' = Matched(grown, c, rules), raised' = raised
      PROVE  IInv'
  <2> DEFINE a == FirstFrame(c, Top.depth, rules)
  <2>1. Flagged(grown, files')
    <3>1. rules \in SUBSET Rules
      BY DEF Rules
    <3> QED BY <1>4, <1>7, <3>1, MatchedType
  <2>2. Added(files, files', This, Top.pass, Top.depth)
    BY <1>2, <1>3, <2>1, AddedFlagged
  <2>3. /\ a.object = c /\ a.pass = "first" /\ a.depth = Top.depth + 1 /\ a.queue = rules
        /\ a.rank = 0 /\ a.next = <<>> /\ a.seen = {} /\ a.kids = 0 /\ a.closing = FALSE
    BY DEF FirstFrame
  <2>4. a \in Frame
    <3>1. c \in Nat /\ Top.depth + 1 \in Nat /\ rules \in SUBSET Rules /\ 0 \in 0 .. MaxKids
      BY <1>2, <1>4, BoundsAssumption DEF Frame, Rules
    <3>2. <<>> \in Seq(Modules) /\ {} \in SUBSET Modules /\ "first" \in Passes
      BY DEF Passes
    <3> QED BY <3>1, <3>2 DEF Frame, FirstFrame
  <2>5. stack' = <<a, rest>> \o Tail(stack) /\ UNCHANGED <<raised, late, outcome>>
    BY <1>1, <1>7
  <2> HIDE DEF a
  <2> QED BY <1>1, <1>4, <1>5, <2>2, <2>3, <2>4, <2>5, ChildStarted
<1>8. ASSUME stack' = <<rest>> \o Tail(stack), files' = grown,
             raised' \in {"error", "scan_timeout"}
      PROVE  IInv'
  <2>1. Added(files, files', This, Top.pass, Top.depth)
    BY <1>3, <1>8
  <2> QED BY <1>1, <1>5, <1>8, <2>1, ChildFailed
<1> QED BY <1>6, <1>7, <1>8

---------------------------------------------------------------------------
(* Where no module has run.                                                 *)
LEMMA RanSame ==
  ASSUME RunsInOrder, DOMAIN files' = DOMAIN files,
         \A o \in DOMAIN files : files'[o].ran = files[o].ran
  PROVE  RunsInOrder' /\ LateEntries(files') = LateEntries(files)
<1>1. RunsInOrder'
  BY DEF RunsInOrder
<1>2. LateEntries(files') \subseteq LateEntries(files)
  BY DEF LateEntries
<1>3. LateEntries(files) \subseteq LateEntries(files')
  BY DEF LateEntries
<1> QED BY <1>1, <1>2, <1>3

LEMMA StillInTime ==
  ASSUME LateEntries(files') = {}
  PROVE  Lateness'
<1>1. Cardinality({}) = 0
  BY FS_EmptySet
<1>2. Cardinality(LateEntries(files')) = 0
  BY <1>1, Zenon
<1>3. Cardinality(LateEntries(files')) <= 1
  BY <1>2
<1> QED BY <1>3 DEF Lateness, LateStarts, LateEntries

LEMMA DepthKept ==
  ASSUME DepthLimit, Tree', files' \in Seq(Object), DOMAIN files' = DOMAIN files,
         \A o \in DOMAIN files : /\ files'[o].parent = files[o].parent
                                /\ files'[o].depth = files[o].depth
                                /\ files[o].flags \subseteq files'[o].flags,
         \A o \in DOMAIN files : files'[o].ran = files[o].ran,
         \A o \in DOMAIN files : files'[o].state = "done" => files[o].state = "done"
  PROVE  DepthLimit'
<1>1. \A o \in DOMAIN files' :
        files'[o].depth = IF files'[o].parent = 0 THEN StartDepth
                          ELSE IF files'[o].pass = "ext" THEN files'[files'[o].parent].depth
                          ELSE files'[files'[o].parent].depth + 1
  BY DepthRule DEF Tree
<1>2. ASSUME MaxDepth > 0, StartDepth <= MaxDepth, NEW o \in DOMAIN files
      PROVE  /\ files'[o].depth <= MaxDepth
             /\ (\E i \in DOMAIN files'[o].ran : files'[o].ran[i].pass # "ext")
                  => files'[o].depth < MaxDepth
             /\ files'[o].parent # 0 /\ files'[o].state = "done" /\ files'[o].depth = MaxDepth
                  => "max_depth_exceeded" \in files'[o].flags
  <2>1. /\ files[o].depth <= MaxDepth
        /\ (\E i \in DOMAIN files[o].ran : files[o].ran[i].pass # "ext")
             => files[o].depth < MaxDepth
        /\ files[o].parent # 0 /\ files[o].state = "done" /\ files[o].depth = MaxDepth
             => "max_depth_exceeded" \in files[o].flags
    BY <1>2 DEF DepthLimit
  <2> QED BY <2>1
<1> QED BY <1>1, <1>2 DEF DepthLimit

(* What flags do not disturb.                                               *)
LEMMA FlaggedCommon ==
  ASSUME IInv, Flagged(files, files')
  PROVE  /\ Tree' /\ DepthLimit' /\ RunsInOrder' /\ LateEntries(files') = LateEntries(files)
<1>1. /\ TypeOK /\ Tree /\ RunsInOrder
      /\ files' \in Seq(Object) /\ DOMAIN files' = DOMAIN files /\ Grows(files, files')
      /\ \A o \in DOMAIN files : files'[o].ran = files[o].ran /\ files'[o].state = files[o].state
  BY DEF IInv, Flagged
<1>2. Tree'
  BY <1>1, TreeSame
<1>3. RunsInOrder' /\ LateEntries(files') = LateEntries(files)
  BY <1>1, RanSame
<1>4. DepthLimit'
  <2>1. \A o \in DOMAIN files :
          /\ files'[o].parent = files[o].parent /\ files'[o].depth = files[o].depth
          /\ files[o].flags \subseteq files'[o].flags
    BY <1>1 DEF Grows
  <2> QED BY <1>1, <1>2, <2>1, DepthKept DEF IInv
<1> QED BY <1>2, <1>3, <1>4

(* The first pass over, the present call f closes.                          *)
Closing(f, g) ==
  /\ g \in Frame /\ g.object = f.object /\ g.pass = f.pass /\ g.depth = f.depth
  /\ g.queue = f.queue /\ g.rank = f.rank /\ g.next = f.next /\ g.seen = f.seen
  /\ g.kids = f.kids /\ g.closing = TRUE

LEMMA SecondPassCommon ==
  ASSUME IInv, Running, Top.pass = "first", ~Top.closing, QueueDone, Flagged(files, files'),
         TooDeep(Top) => "max_depth_exceeded" \in files'[This].flags,
         NEW g, Closing(Top, g)
  PROVE  /\ g \in Frame /\ g.object = Top.object /\ g.pass = "first" /\ g.kids = 0
         /\ g.closing = TRUE /\ Top.closing = FALSE /\ Top.kids = 0 /\ Top.next = <<>>
         /\ Sound(files', g)
<1>1. Sound(files, Top) /\ Top.closing \in BOOLEAN /\ This = Top.object
  BY Present
<1>2. Top.next = <<>> /\ Top.kids = 0
  BY DEF QueueDone
<1>3. /\ g \in Frame /\ g.object = Top.object /\ g.pass = "first" /\ g.depth = Top.depth
      /\ g.queue = Top.queue /\ g.rank = Top.rank /\ g.next = <<>> /\ g.kids = 0
      /\ g.closing = TRUE
  BY <1>2 DEF Closing
<1>4. TooDeep(g) => TooDeep(Top)
  BY <1>3 DEF TooDeep
<1>5. Sound(files', g)
  BY <1>1, <1>3, <1>4 DEF Sound, Flagged, Grows
<1> QED BY <1>1, <1>2, <1>3, <1>5

(* No conditional rule matches.                                             *)
LEMMA NoSecondPass ==
  ASSUME IInv, Running, Top.pass = "first", ~Top.closing, QueueDone, Flagged(files, files'),
         TooDeep(Top) => "max_depth_exceeded" \in files'[This].flags,
         NEW g, Closing(Top, g), stack' = <<g>> \o Tail(stack), UNCHANGED <<raised, late, outcome>>
  PROVE  IInv'
<1>1. /\ stack # <<>> /\ raised = "none" /\ Top \in Frame /\ stack \in Seq(Frame)
      /\ stack[1] = Top /\ This = Top.object
  BY Present DEF IInv, TypeOK
<1>2. /\ g \in Frame /\ g.object = Top.object /\ g.pass = "first" /\ g.kids = 0
      /\ g.closing = TRUE /\ Top.closing = FALSE /\ Top.kids = 0 /\ Top.next = <<>>
      /\ Sound(files', g)
  BY SecondPassCommon
<1>3. Tree' /\ DepthLimit' /\ RunsInOrder' /\ LateEntries(files') = LateEntries(files)
  BY FlaggedCommon
<1>4. /\ files' \in Seq(Object) /\ DOMAIN files' = DOMAIN files /\ Grows(files, files')
      /\ \A o \in DOMAIN files : files'[o].ran = files[o].ran /\ files'[o].state = files[o].state
  BY DEF Flagged
<1>5. /\ stack' \in Seq(Frame) /\ stack' # <<>> /\ DOMAIN stack' = DOMAIN stack
      /\ stack'[1] = g /\ \A i \in DOMAIN stack : i # 1 => stack'[i] = stack[i]
  BY <1>1, <1>2, Replaced
<1>6. TypeOK /\ Calls /\ Accounts /\ Course
  BY DEF IInv
<1>7. TypeOK'
  BY <1>4, <1>5, <1>6 DEF TypeOK
<1>8. Calls'
  BY <1>1, <1>2, <1>4, <1>6, CallsInPlace
<1>9. Fitting'
  <2> SUFFICES ASSUME NEW i \in DOMAIN stack, i # 1
               PROVE  Fit(files'[stack'[i].object].ran, stack'[i])
    <3>1. \A ran : Fit(ran, g)
      BY <1>2 DEF Fit
    <3> QED BY <1>5, <3>1 DEF Fitting
  <2>1. Fit(files[stack[i].object].ran, stack[i]) /\ stack[i].object \in DOMAIN files
    BY <1>1 DEF IInv, Fitting, Calls, Sound
  <2> QED BY <1>4, <1>5, <2>1
<1>10. Course'
  <2>1. \A i \in DOMAIN stack : stack'[i].object = stack[i].object
    BY <1>1, <1>2, <1>5
  <2> QED BY <1>1, <1>4, <1>5, <1>6, <2>1, CourseInPlace
<1>11. Lateness'
  <2>1. LateEntries(files') = {}
    BY <1>1, <1>3 DEF IInv, Lateness
  <2> QED BY <2>1, StillInTime
<1>12. Accounts'
  <2>1. files'[This].ran = files[This].ran /\ g.kids = Top.kids
    <3>1. This \in DOMAIN files
      BY Present
    <3> QED BY <1>2, <1>4, <3>1
  <2> QED BY <1>1, <1>2, <1>4, <1>6, <2>1, AccountsInPlace
<1> QED BY <1>3, <1>7, <1>8, <1>9, <1>10, <1>11, <1>12 DEF IInv

(* The conditional rules that match are gone through.                       *)
LEMMA SecondPassBegun ==
  ASSUME IInv, Running, Top.pass = "first", ~Top.closing, QueueDone, Flagged(files, files'),
         TooDeep(Top) => "max_depth_exceeded" \in files'[This].flags,
         NEW g, Closing(Top, g), NEW a \in Frame, stack' = <<a, g>> \o Tail(stack),
         a.object = This, a.pass = "second", a.depth = Top.depth, a.rank = 0,
         a.next = <<>>, a.kids = 0, a.closing = FALSE, UNCHANGED <<raised, late, outcome>>
  PROVE  IInv'
<1>1. /\ stack # <<>> /\ raised = "none" /\ Top \in Frame /\ stack \in Seq(Frame)
      /\ stack[1] = Top /\ 1 \in DOMAIN stack /\ This = Top.object /\ This \in DOMAIN files
      /\ Sound(files, Top) /\ DOMAIN stack = 1 .. Len(stack) /\ Len(stack) \in Nat \ {0}
  BY Present, FirstOf DEF IInv, TypeOK
<1>2. /\ g \in Frame /\ g.object = Top.object /\ g.pass = "first" /\ g.kids = 0
      /\ g.closing = TRUE /\ Top.closing = FALSE /\ Top.kids = 0 /\ Top.next = <<>>
      /\ Sound(files', g)
  BY SecondPassCommon
<1>3. Tree' /\ DepthLimit' /\ RunsInOrder' /\ LateEntries(files') = LateEntries(files)
  BY FlaggedCommon
<1>4. /\ files' \in Seq(Object) /\ DOMAIN files' = DOMAIN files /\ Grows(files, files')
      /\ \A o \in DOMAIN files : files'[o].ran = files[o].ran /\ files'[o].state = files[o].state
  BY DEF Flagged
<1>5. /\ stack' \in Seq(Frame) /\ stack' # <<>> /\ DOMAIN stack' = 1 .. Len(stack) + 1
      /\ stack'[1] = a /\ stack'[2] = g
  BY <1>1, <1>2, Pushed
<1>6. ASSUME NEW i \in DOMAIN stack', i # 1
      PROVE  /\ i - 1 \in DOMAIN stack /\ (i - 1) + 1 = i
             /\ stack'[i].object = stack[i - 1].object
             /\ stack'[i].pass = stack[i - 1].pass
             /\ i # 2 => stack'[i] = stack[i - 1]
  BY <1>1, <1>2, <1>6, Shifted
<1>7. TypeOK'
  BY <1>4, <1>5 DEF IInv, TypeOK
<1>8. Calls'
  <2>1. Sound(files', a)
    <3>1. \A r \in a.queue : Priority[r] \in Nat
      BY RulesAssumption DEF Frame
    <3>2. files'[This].depth = files[This].depth
      BY <1>1, <1>4 DEF Grows
    <3> QED BY <1>1, <1>4, <3>1, <3>2 DEF Sound
  <2>2. Link(files', a, g)
    BY <1>1, <1>2 DEF Link
  <2>3. \A i \in DOMAIN stack : stack[i].object = a.object => i = 1 /\ a.pass = "second"
    BY SameObject DEF IInv
  <2>4. TypeOK /\ Calls
    BY DEF IInv
  <2> QED BY <1>1, <1>2, <1>4, <2>1, <2>2, <2>3, <2>4, CallsPushed
<1>9. Fitting'
  <2> SUFFICES ASSUME NEW i \in DOMAIN stack'
               PROVE  Fit(files'[stack'[i].object].ran, stack'[i])
    BY DEF Fitting
  <2>1. CASE i = 1
    <3>1. Fit(files[This].ran, Top)
      BY <1>1 DEF IInv, Fitting
    <3>2. Fit(files[This].ran, a)
      BY <1>1, <1>2, <3>1 DEF Fit
    <3> QED BY <1>1, <1>4, <1>5, <2>1, <3>2
  <2>2. CASE i = 2
    <3>1. \A ran : Fit(ran, g)
      BY <1>2 DEF Fit
    <3> QED BY <1>5, <2>2, <3>1
  <2>3. CASE i # 1 /\ i # 2
    <3>1. i - 1 \in DOMAIN stack /\ stack'[i] = stack[i - 1]
      BY <1>6, <2>3
    <3>2. /\ Fit(files[stack[i - 1].object].ran, stack[i - 1])
          /\ stack[i - 1].object \in DOMAIN files
      BY <1>1, <3>1 DEF IInv, Fitting, Calls, Sound
    <3> QED BY <1>4, <3>1, <3>2
  <2> QED BY <2>1, <2>2, <2>3
<1>10. Course'
  <2>1. outcome' = "running" /\ \A o \in DOMAIN files' : files'[o].state # "cut"
    BY <1>1, <1>4 DEF IInv, Course
  <2>2. \A i \in DOMAIN stack : i + 1 \in DOMAIN stack' /\ stack'[i + 1].object = stack[i].object
    <3> SUFFICES ASSUME NEW i \in DOMAIN stack
                 PROVE  i + 1 \in DOMAIN stack' /\ stack'[i + 1].object = stack[i].object
      OBVIOUS
    <3>1. i + 1 \in DOMAIN stack' /\ i + 1 # 1 /\ (i + 1) - 1 = i
      BY <1>1, <1>5
    <3> QED BY <1>6, <3>1
  <2>3. \A o \in DOMAIN files' :
          files'[o].state = "open" /\ (\A i \in DOMAIN stack' : stack'[i].object # o)
            => files'[o].ran = <<>>
    <3> SUFFICES ASSUME NEW o \in DOMAIN files', files'[o].state = "open",
                        \A i \in DOMAIN stack' : stack'[i].object # o
                 PROVE  files'[o].ran = <<>>
      OBVIOUS
    <3>1. o \in DOMAIN files /\ files[o].state = "open" /\ files'[o].ran = files[o].ran
      BY <1>4
    <3>2. \A i \in DOMAIN stack : stack[i].object # o
      BY <2>2
    <3> QED BY <3>1, <3>2 DEF IInv, Course
  <2>4. \A o \in DOMAIN files' : "scan_timeout" \in files'[o].flags => files'[o].state = "cut"
    BY <1>4 DEF IInv, Course, Grows
  <2> QED BY <2>1, <2>3, <2>4 DEF Course
<1>11. Lateness'
  <2>1. LateEntries(files') = {}
    BY <1>1, <1>3 DEF IInv, Lateness
  <2> QED BY <2>1, StillInTime
<1>12. Accounts'
  <2>1. \A o, P : Kids(files', o, P) = Kids(files, o, P)
    BY <1>4, KidsSame
  <2>2. \A o \in DOMAIN files : \A P, n : Balanced(files, o, P, n) => Balanced(files', o, P, n)
    BY <1>4, <2>1 DEF Balanced
  <2>3. \A o \in DOMAIN files' : files'[o].state = "done" =>
          /\ Balanced(files', o, Passes, 0)
          /\ \A k \in Kids(files', o, Passes) : files'[k].state = "done"
    <3>1. \A o \in DOMAIN files : files[o].state = "done" =>
            /\ Balanced(files, o, Passes, 0)
            /\ \A k \in Kids(files, o, Passes) : files[k].state = "done"
      BY DEF IInv, Accounts
    <3>2. \A o : Kids(files, o, Passes) \subseteq DOMAIN files
      BY DEF Kids
    <3> SUFFICES ASSUME NEW o \in DOMAIN files', files'[o].state = "done"
                 PROVE  /\ Balanced(files', o, Passes, 0)
                        /\ \A k \in Kids(files', o, Passes) : files'[k].state = "done"
      OBVIOUS
    <3>3. o \in DOMAIN files /\ files[o].state = "done"
      BY <1>4
    <3>4. Balanced(files', o, Passes, 0)
      BY <2>2, <3>1, <3>3
    <3>5. \A k \in Kids(files, o, Passes) : k \in DOMAIN files /\ files[k].state = "done"
      BY <3>1, <3>2, <3>3
    <3>6. \A k \in Kids(files, o, Passes) : files'[k].state = "done"
      BY <1>4, <3>5
    <3> QED BY <2>1, <3>4, <3>6
  <2>4. /\ Balanced(files', This, Passes, 0) /\ Balanced(files', This, {"first"}, 0)
        /\ \A k \in Kids(files', This, Passes) : files'[k].state = "done"
    <3>1. Balanced(files, This, Passes, 0) /\ Balanced(files, This, {"first"}, 0)
      BY <1>1, <1>2 DEF IInv, Accounts
    <3>2. \A k \in Kids(files, This, Passes) : files[k].state = "done"
      BY <1>1 DEF IInv, Accounts
    <3>3. Kids(files, This, Passes) \subseteq DOMAIN files
      BY DEF Kids
    <3> QED BY <1>1, <1>4, <2>1, <2>2, <3>1, <3>2, <3>3
  <2>5. ASSUME NEW i \in DOMAIN stack'
        PROVE  LET f == stack'[i] IN
               /\ ~f.closing => Balanced(files', f.object, Passes, f.kids)
               /\ f.closing /\ (i = 1 \/ stack'[i - 1].pass # "second")
                    => Balanced(files', f.object, Passes, 0)
               /\ f.pass = "first" => Balanced(files', f.object, {"first"}, f.kids)
               /\ f.pass = "second" => Balanced(files', f.object, {"first"}, 0)
    <3>1. CASE i = 1
      BY <1>5, <2>4, <3>1
    <3>2. CASE i = 2
      <4>1. stack'[i] = g /\ stack'[i - 1] = a
        BY <1>5, <3>2
      <4> QED BY <1>1, <1>2, <2>4, <4>1
    <3>3. CASE i # 1 /\ i # 2
      <4>1. /\ i - 1 \in DOMAIN stack /\ i - 1 # 1
            /\ stack'[i] = stack[i - 1] /\ stack'[i - 1].pass = stack[(i - 1) - 1].pass
        <5>1. i - 1 \in DOMAIN stack' /\ i - 1 # 1
          BY <1>1, <1>5, <3>3
        <5> QED BY <1>6, <3>3, <5>1
      <4>2. LET f == stack[i - 1] IN
              /\ ~f.closing => Balanced(files, f.object, Passes, f.kids)
              /\ f.closing /\ (i - 1 = 1 \/ stack[(i - 1) - 1].pass # "second")
                   => Balanced(files, f.object, Passes, 0)
              /\ f.pass = "first" => Balanced(files, f.object, {"first"}, f.kids)
              /\ f.pass = "second" => Balanced(files, f.object, {"first"}, 0)
        BY <4>1 DEF IInv, Accounts
      <4>3. stack[i - 1].object \in DOMAIN files
        BY <4>1 DEF IInv, Calls, Sound
      <4> QED BY <2>2, <3>3, <4>1, <4>2, <4>3
    <3> QED BY <3>1, <3>2, <3>3
  <2>6. ASSUME NEW i \in DOMAIN stack', NEW k \in Kids(files', stack'[i].object, Passes)
        PROVE  \/ files'[k].state = "done"
               \/ \E j \in 1 .. i - 1 : stack'[j].object = k
    <3>1. CASE i = 1
      BY <1>5, <2>4, <3>1
    <3>2. CASE i # 1
      <4>1. i - 1 \in DOMAIN stack /\ (i - 1) + 1 = i /\ stack'[i].object = stack[i - 1].object
        BY <1>6, <3>2
      <4>2. \/ files[k].state = "done"
            \/ \E j \in 1 .. (i - 1) - 1 : stack[j].object = k
        BY <1>1, <2>1, <4>1 DEF IInv, Accounts
      <4>3. k \in DOMAIN files
        BY <1>4 DEF Kids
      <4>4. ASSUME NEW j \in 1 .. (i - 1) - 1, stack[j].object = k
            PROVE  \E m \in 1 .. i - 1 : stack'[m].object = k
        <5>1. j + 1 \in DOMAIN stack' /\ j + 1 # 1 /\ (j + 1) - 1 = j /\ j + 1 \in 1 .. i - 1
          BY <1>1, <1>5, <4>1, SMTT(30)
        <5>2. stack'[j + 1].object = stack[j].object
          BY <1>6, <5>1
        <5> QED BY <4>4, <5>1, <5>2
      <4> QED BY <1>4, <4>2, <4>3, <4>4
    <3> QED BY <3>1, <3>2
  <2> QED BY <2>3, <2>5, <2>6 DEF Accounts
<1> QED BY <1>3, <1>7, <1>8, <1>9, <1>10, <1>11, <1>12 DEF IInv

LEMMA TwoCalls ==
  ASSUME NEW S, NEW x \in S, NEW y \in S
  PROVE  <<x>> \o <<y>> = <<x, y>>
<1> DEFINE s == <<x>> \o <<y>>
           t == <<x, y>>
<1>1. s \in Seq(S) /\ Len(s) = 2 /\ s[1] = x /\ s[2] = y
  OBVIOUS
<1>2. t \in Seq(S) /\ Len(t) = 2 /\ t[1] = x /\ t[2] = y
  OBVIOUS
<1> HIDE DEF s, t
<1>3. \A i \in 1 .. Len(s) : s[i] = t[i]
  <2>1. \A i \in 1 .. 2 : i = 1 \/ i = 2
    OBVIOUS
  <2> QED BY <1>1, <1>2, <2>1
<1>4. s = t
  BY <1>1, <1>2, <1>3, SeqEqual
<1> QED BY <1>4 DEF s, t

LEMMA SecondPassStep ==
  ASSUME IInv, SecondPass
  PROVE  IInv'
<1> DEFINE g == [Top EXCEPT !.closing = TRUE]
<1>1. /\ Running /\ Top.pass = "first" /\ ~Top.closing /\ QueueDone
      /\ UNCHANGED <<raised, late, outcome>>
  BY DEF SecondPass
<1>2. PICK rules \in SUBSET SecondRules :
        /\ files' = Matched(NoteDepth(This), This, rules)
        /\ stack' = ((IF rules = {} THEN <<>> ELSE <<SecondFrame(Top, rules)>>) \o <<g>>)
                       \o Tail(stack)
  BY DEF SecondPass
<1>3. /\ stack # <<>> /\ Top \in Frame /\ This \in DOMAIN files /\ files \in Seq(Object)
      /\ This = Top.object
  BY <1>1, Present DEF IInv, TypeOK
<1>4. Closing(Top, g)
  BY <1>3 DEF Closing, Frame
<1> HIDE DEF g
<1>5. /\ Flagged(files, files')
      /\ TooDeep(Top) => "max_depth_exceeded" \in files'[This].flags
  <2> DEFINE fs == files
             gs == NoteDepth(This)
             hs == files'
             o == This
  <2>1. Flagged(fs, gs) /\ (TooDeep(Top) => "max_depth_exceeded" \in gs[o].flags)
    BY <1>3, NoteDepthType
  <2>2. gs \in Seq(Object) /\ o \in DOMAIN gs /\ rules \in SUBSET Rules
    <3>1. rules \in SUBSET Rules
      BY DEF Rules
    <3> QED BY <1>3, <2>1, <3>1 DEF Flagged
  <2>3. hs = Matched(gs, o, rules)
    BY <1>2
  <2> HIDE DEF fs, gs, hs, o
  <2>4. Flagged(gs, hs)
    BY <2>2, <2>3, MatchedType
  <2>5. Flagged(fs, hs)
    BY <2>1, <2>4, FlaggedTwice
  <2>6. TooDeep(Top) => "max_depth_exceeded" \in hs[o].flags
    BY <2>1, <2>2, <2>4 DEF Flagged, Grows
  <2> QED BY <2>5, <2>6 DEF fs, hs, o
<1>6. CASE rules = {}
  <2>1. <<>> \o <<g>> = <<g>>
    OBVIOUS
  <2>2. stack' = <<g>> \o Tail(stack)
    BY <1>2, <1>6, <2>1
  <2> QED BY <1>1, <1>4, <1>5, <2>2, NoSecondPass
<1>7. CASE rules # {}
  <2> DEFINE a == SecondFrame(Top, rules)
  <2>3. /\ a.object = This /\ a.pass = "second" /\ a.depth = Top.depth /\ a.queue = rules
        /\ a.rank = 0 /\ a.next = <<>> /\ a.seen = {} /\ a.kids = 0 /\ a.closing = FALSE
    BY <1>3 DEF SecondFrame
  <2>4. a \in Frame
    <3>1. Top.object \in Nat /\ Top.depth \in Nat /\ rules \in SUBSET Rules /\ 0 \in 0 .. MaxKids
      BY <1>3, BoundsAssumption DEF Frame, Rules
    <3>2. <<>> \in Seq(Modules) /\ {} \in SUBSET Modules /\ "second" \in Passes
      BY DEF Passes
    <3> QED BY <3>1, <3>2 DEF Frame, SecondFrame
  <2>5. stack' = (<<a>> \o <<g>>) \o Tail(stack)
    BY <1>2, <1>7
  <2> HIDE DEF a
  <2>6. <<a>> \o <<g>> = <<a, g>>
    <3>1. g \in Frame
      BY <1>4 DEF Closing
    <3> QED BY <2>4, <3>1, TwoCalls
  <2>7. stack' = <<a, g>> \o Tail(stack)
    BY <2>5, <2>6
  <2> QED BY <1>1, <1>4, <1>5, <2>3, <2>4, <2>7, SecondPassBegun
<1> QED BY <1>6, <1>7

---------------------------------------------------------------------------
(* A call returns; those around it remain.                                  *)
LEMMA CallsPopped ==
  ASSUME TypeOK, Calls, stack # <<>>, stack' = Tail(stack),
         Grows(files, files'),
         \A i \in DOMAIN stack : i # 1 => files'[stack[i].object].state = "open"
  PROVE  /\ stack' \in Seq(Frame)
         /\ \A i \in DOMAIN stack' : i + 1 \in DOMAIN stack /\ i + 1 # 1 /\ stack'[i] = stack[i + 1]
         /\ \A i \in DOMAIN stack : i # 1 => i - 1 \in DOMAIN stack' /\ stack'[i - 1] = stack[i]
         /\ stack' = <<>> <=> Len(stack) = 1
         /\ Calls'
<1>1. /\ stack' \in Seq(Frame) /\ Len(stack') = Len(stack) - 1 /\ DOMAIN stack' = 1 .. Len(stack) - 1
      /\ \A i \in DOMAIN stack' : stack'[i] = stack[i + 1]
      /\ Len(stack) \in Nat \ {0} /\ (stack' = <<>> <=> Len(stack) = 1)
  BY Popped DEF TypeOK
<1>2. DOMAIN stack = 1 .. Len(stack) /\ Len(stack) \in DOMAIN stack
  BY FirstOf DEF TypeOK
<1>3. \A i \in DOMAIN stack' : i + 1 \in DOMAIN stack /\ i + 1 # 1 /\ stack'[i] = stack[i + 1]
  BY <1>1, <1>2
<1>4. \A i \in DOMAIN stack : i # 1 => i - 1 \in DOMAIN stack' /\ stack'[i - 1] = stack[i]
  <2> SUFFICES ASSUME NEW i \in DOMAIN stack, i # 1
               PROVE  i - 1 \in DOMAIN stack' /\ stack'[i - 1] = stack[i]
    OBVIOUS
  <2>1. i - 1 \in DOMAIN stack' /\ (i - 1) + 1 = i
    BY <1>1, <1>2
  <2> QED BY <1>1, <2>1
<1>5. Calls'
  <2>1. \A i \in DOMAIN stack' : Sound(files', stack'[i])
    <3> SUFFICES ASSUME NEW i \in DOMAIN stack, i # 1
                 PROVE  Sound(files', stack[i])
      BY <1>3
    <3>1. Sound(files, stack[i])
      BY DEF Calls
    <3> QED BY <3>1, SoundKept
  <2>2. ASSUME NEW i \in DOMAIN stack', i + 1 \in DOMAIN stack'
        PROVE  Link(files', stack'[i], stack'[i + 1])
    <3>1. /\ i + 1 \in DOMAIN stack /\ (i + 1) + 1 \in DOMAIN stack
          /\ stack'[i] = stack[i + 1] /\ stack'[i + 1] = stack[(i + 1) + 1]
      BY <1>3, <2>2
    <3>2. Link(files, stack[i + 1], stack[(i + 1) + 1]) /\ stack[i + 1].object \in DOMAIN files
      BY <3>1 DEF Calls, Sound
    <3> QED BY <3>1, <3>2, LinkKept
  <2>3. ASSUME stack' # <<>>
        PROVE  stack'[Len(stack')].pass # "second"
    <3>1. Len(stack) # 1 /\ Len(stack') = Len(stack) - 1
      BY <1>1, <2>3
    <3>2. stack'[Len(stack) - 1] = stack[Len(stack)]
      BY <1>2, <1>4, <3>1
    <3> QED BY <3>1, <3>2 DEF Calls
  <2>4. ASSUME NEW i \in DOMAIN stack', NEW j \in DOMAIN stack', i < j,
               stack'[i].object = stack'[j].object
        PROVE  j = i + 1 /\ stack'[i].pass = "second"
    <3>1. /\ i + 1 \in DOMAIN stack /\ j + 1 \in DOMAIN stack /\ i + 1 < j + 1
          /\ stack'[i] = stack[i + 1] /\ stack'[j] = stack[j + 1] /\ i \in Nat /\ j \in Nat
      BY <1>1, <1>3, <2>4
    <3>2. j + 1 = (i + 1) + 1 /\ stack[i + 1].pass = "second"
      BY <2>4, <3>1 DEF Calls
    <3> QED BY <3>1, <3>2
  <2> QED BY <2>1, <2>2, <2>3, <2>4 DEF Calls
<1> QED BY <1>1, <1>3, <1>4, <1>5

(* A second pass is over.                                                   *)
LEMMA SecondReturned ==
  ASSUME IInv, Running, Top.pass = "second", QueueDone, Flagged(files, files'),
         stack' = Tail(stack), outcome' = IF Len(stack) = 1 THEN "none" ELSE outcome,
         UNCHANGED <<raised, late>>
  PROVE  IInv'
<1>1. /\ stack # <<>> /\ raised = "none" /\ Top \in Frame /\ Top.closing \in BOOLEAN
      /\ stack[1] = Top /\ 1 \in DOMAIN stack /\ This = Top.object /\ This \in DOMAIN files
      /\ Sound(files, Top) /\ DOMAIN stack = 1 .. Len(stack) /\ Len(stack) \in Nat \ {0}
  BY Present, FirstOf DEF IInv, TypeOK
<1>2. Tree' /\ DepthLimit' /\ RunsInOrder' /\ LateEntries(files') = LateEntries(files)
  BY FlaggedCommon
<1>3. /\ files' \in Seq(Object) /\ DOMAIN files' = DOMAIN files /\ Grows(files, files')
      /\ \A o \in DOMAIN files : files'[o].ran = files[o].ran /\ files'[o].state = files[o].state
  BY DEF Flagged
<1>4. Top.kids = 0 /\ Top.closing = FALSE
  BY <1>1 DEF QueueDone, Sound
<1>5. /\ stack' \in Seq(Frame)
      /\ \A i \in DOMAIN stack' : i + 1 \in DOMAIN stack /\ i + 1 # 1 /\ stack'[i] = stack[i + 1]
      /\ \A i \in DOMAIN stack : i # 1 => i - 1 \in DOMAIN stack' /\ stack'[i - 1] = stack[i]
      /\ stack' = <<>> <=> Len(stack) = 1
      /\ Calls'
  <2>1. TypeOK /\ Calls
    BY DEF IInv
  <2>2. \A i \in DOMAIN stack : i # 1 => files'[stack[i].object].state = "open"
    BY <1>3, <2>1 DEF Calls, Sound
  <2> QED BY <1>1, <1>3, <2>1, <2>2, CallsPopped
<1>6. /\ Len(stack) # 1 /\ 2 \in DOMAIN stack /\ 1 \in DOMAIN stack' /\ stack'[1] = stack[2]
      /\ stack[2].object = This /\ stack[2].closing /\ stack[2].pass = "first" /\ stack[2].kids = 0
  <2>1. Len(stack) # 1
    BY <1>1 DEF IInv, Calls
  <2>2. 2 \in DOMAIN stack /\ 2 - 1 = 1 /\ 1 + 1 = 2
    BY <1>1, <2>1
  <2>3. Link(files, stack[1], stack[1 + 1])
    BY <1>1, <2>2 DEF IInv, Calls
  <2>4. Link(files, Top, stack[2])
    BY <1>1, <2>2, <2>3
  <2>5. stack[2].object = This /\ stack[2].closing
    BY <1>1, <2>4 DEF Link
  <2>6. Sound(files, stack[2])
    BY <2>2 DEF IInv, Calls
  <2>7. stack[2].pass = "first" /\ stack[2].kids = 0
    BY <2>5, <2>6 DEF Sound
  <2> QED BY <1>5, <2>1, <2>2, <2>5, <2>7
<1>7. TypeOK'
  BY <1>3, <1>5, <1>6 DEF IInv, TypeOK
<1>8. Fitting'
  <2> SUFFICES ASSUME NEW i \in DOMAIN stack'
               PROVE  Fit(files'[stack'[i].object].ran, stack'[i])
    BY DEF Fitting
  <2>1. i + 1 \in DOMAIN stack /\ stack'[i] = stack[i + 1]
    BY <1>5
  <2>2. /\ Fit(files[stack[i + 1].object].ran, stack[i + 1])
        /\ stack[i + 1].object \in DOMAIN files
    BY <1>1, <2>1 DEF IInv, Fitting, Calls, Sound
  <2> QED BY <1>3, <2>1, <2>2
<1>9. Course'
  <2>1. outcome' = "running" /\ \A o \in DOMAIN files' : files'[o].state # "cut"
    BY <1>1, <1>3, <1>6 DEF IInv, Course
  <2>2. ASSUME NEW o \in DOMAIN files', files'[o].state = "open",
               \A i \in DOMAIN stack' : stack'[i].object # o
        PROVE  files'[o].ran = <<>>
    <3>1. o \in DOMAIN files /\ files[o].state = "open" /\ files'[o].ran = files[o].ran
      BY <1>3, <2>2
    <3>2. ASSUME NEW i \in DOMAIN stack
          PROVE  stack[i].object # o
      <4>1. CASE i = 1
        BY <1>1, <1>6, <2>2, <4>1
      <4>2. CASE i # 1
        BY <1>5, <2>2, <4>2
      <4> QED BY <4>1, <4>2
    <3> QED BY <3>1, <3>2 DEF IInv, Course
  <2>3. \A o \in DOMAIN files' : "scan_timeout" \in files'[o].flags => files'[o].state = "cut"
    BY <1>3 DEF IInv, Course, Grows
  <2> QED BY <2>1, <2>2, <2>3 DEF Course
<1>10. Lateness'
  <2>1. LateEntries(files') = {}
    BY <1>1, <1>2 DEF IInv, Lateness
  <2> QED BY <2>1, StillInTime
<1>11. Accounts'
  <2>1. \A o, P : Kids(files', o, P) = Kids(files, o, P)
    BY <1>3, KidsSame
  <2>2. \A o \in DOMAIN files : \A P, n : Balanced(files, o, P, n) => Balanced(files', o, P, n)
    BY <1>3, <2>1 DEF Balanced
  <2>3. \A o \in DOMAIN files' : files'[o].state = "done" =>
          /\ Balanced(files', o, Passes, 0)
          /\ \A k \in Kids(files', o, Passes) : files'[k].state = "done"
    <3>1. \A o \in DOMAIN files : files[o].state = "done" =>
            /\ Balanced(files, o, Passes, 0)
            /\ \A k \in Kids(files, o, Passes) : files[k].state = "done"
      BY DEF IInv, Accounts
    <3>2. \A o : Kids(files, o, Passes) \subseteq DOMAIN files
      BY DEF Kids
    <3> QED BY <1>3, <2>1, <2>2, <3>1, <3>2
  <2>4. ASSUME NEW i \in DOMAIN stack'
        PROVE  LET f == stack'[i] IN
               /\ ~f.closing => Balanced(files', f.object, Passes, f.kids)
               /\ f.closing /\ (i = 1 \/ stack'[i - 1].pass # "second")
                    => Balanced(files', f.object, Passes, 0)
               /\ f.pass = "first" => Balanced(files', f.object, {"first"}, f.kids)
               /\ f.pass = "second" => Balanced(files', f.object, {"first"}, 0)
    <3>1. LET f == stack[i + 1] IN
            /\ ~f.closing => Balanced(files', f.object, Passes, f.kids)
            /\ f.closing /\ (i + 1 = 1 \/ stack[(i + 1) - 1].pass # "second")
                 => Balanced(files', f.object, Passes, 0)
            /\ f.pass = "first" => Balanced(files', f.object, {"first"}, f.kids)
            /\ f.pass = "second" => Balanced(files', f.object, {"first"}, 0)
      <4>1. i + 1 \in DOMAIN stack /\ stack[i + 1].object \in DOMAIN files
        BY <1>5 DEF IInv, Calls, Sound
      <4>2. LET f == stack[i + 1] IN
              /\ ~f.closing => Balanced(files, f.object, Passes, f.kids)
              /\ f.closing /\ (i + 1 = 1 \/ stack[(i + 1) - 1].pass # "second")
                   => Balanced(files, f.object, Passes, 0)
              /\ f.pass = "first" => Balanced(files, f.object, {"first"}, f.kids)
              /\ f.pass = "second" => Balanced(files, f.object, {"first"}, 0)
        BY <4>1 DEF IInv, Accounts
      <4> QED BY <2>2, <4>1, <4>2
    <3>2. CASE i = 1
      <4>1. Balanced(files', This, Passes, 0)
        BY <1>1, <1>4, <2>2 DEF IInv, Accounts
      <4>2. stack[i + 1] = stack[2]
        BY <3>2
      <4> QED BY <1>6, <3>1, <3>2, <4>1, <4>2
    <3>3. CASE i # 1
      <4>1. i - 1 \in DOMAIN stack' /\ (i - 1) + 1 = i /\ (i + 1) - 1 = i
        <5>1. i + 1 \in DOMAIN stack /\ i \in DOMAIN stack
          BY <1>1, <1>5
        <5> QED BY <1>1, <1>5, <3>3, <5>1
      <4>2. stack'[i - 1] = stack[(i + 1) - 1] /\ stack'[i] = stack[i + 1]
        BY <1>5, <4>1
      <4> QED BY <3>1, <3>3, <4>2
    <3> QED BY <3>2, <3>3
  <2>5. ASSUME NEW i \in DOMAIN stack', NEW k \in Kids(files', stack'[i].object, Passes)
        PROVE  \/ files'[k].state = "done"
               \/ \E j \in 1 .. i - 1 : stack'[j].object = k
    <3>1. i + 1 \in DOMAIN stack /\ stack'[i] = stack[i + 1] /\ (i + 1) - 1 = i /\ i \in Nat
      BY <1>1, <1>5
    <3>2. \/ files[k].state = "done"
          \/ \E j \in 1 .. i : stack[j].object = k
      BY <1>1, <2>1, <3>1 DEF IInv, Accounts
    <3>3. k \in DOMAIN files
      BY <1>3 DEF Kids
    <3>4. CASE stack[1].object = k
      <4>1. i # 1
        <5>1. Placed(files, This) /\ This \in Nat
          BY <1>1 DEF IInv, Tree, Frame
        <5>2. files[k].parent = stack[i + 1].object
          <6>1. k \in Kids(files, stack[i + 1].object, Passes)
            BY <2>1, <3>1
          <6> QED BY <6>1 DEF Kids
        <5>3. stack[1 + 1].object = This
          BY <1>6
        <5>4. ~(This < This) /\ This # 0
          BY <1>1, <5>1 DEF IInv, TypeOK
        <5> QED BY <1>1, <3>4, <5>1, <5>2, <5>3, <5>4 DEF Placed
      <4>2. 1 \in 1 .. i - 1
        BY <3>1, <4>1, <1>5, <1>1
      <4> QED BY <1>1, <1>6, <3>4, <4>2
    <3>5. ASSUME NEW j \in 1 .. i, j # 1, stack[j].object = k
          PROVE  \E m \in 1 .. i - 1 : stack'[m].object = k
      <4>1. j \in DOMAIN stack /\ j - 1 \in 1 .. i - 1
        BY <1>1, <3>1, <3>5
      <4>2. stack'[j - 1] = stack[j]
        BY <1>5, <3>5, <4>1
      <4> QED BY <3>5, <4>1, <4>2
    <3> QED BY <1>3, <3>2, <3>3, <3>4, <3>5
  <2> QED BY <2>3, <2>4, <2>5 DEF Accounts
<1> QED BY <1>2, <1>5, <1>7, <1>8, <1>9, <1>10, <1>11 DEF IInv

(* The scan of o has come to its end.                                       *)
Ended(fs, gs, o) ==
  /\ gs \in Seq(Object) /\ DOMAIN gs = DOMAIN fs /\ Grows(fs, gs)
  /\ \A i \in DOMAIN fs : /\ gs[i].ran = fs[i].ran
                          /\ gs[i].state = fs[i].state \/ (i = o /\ gs[i].state = "done")
  /\ gs[o].state = "done"

LEMMA EndedType ==
  ASSUME NEW fs \in Seq(Object), NEW o \in DOMAIN fs, NEW gs,
         gs = [fs EXCEPT ![o].state = "done"]
  PROVE  Ended(fs, gs, o)
<1> DEFINE x == [fs[o] EXCEPT !.state = "done"]
<1>1. fs[o] \in Object
  OBVIOUS
<1>2. /\ x \in Object /\ x.parent = fs[o].parent /\ x.pass = fs[o].pass /\ x.depth = fs[o].depth
      /\ x.ran = fs[o].ran /\ x.flags = fs[o].flags /\ x.state = "done"
  BY <1>1 DEF Object
<1>3. gs = [fs EXCEPT ![o] = x]
  OBVIOUS
<1> HIDE DEF x
<1>4. /\ gs \in Seq(Object) /\ DOMAIN gs = DOMAIN fs /\ gs[o] = x
      /\ \A i \in DOMAIN fs : i # o => gs[i] = fs[i]
  BY <1>2, <1>3
<1>5. Grows(fs, gs)
  BY <1>2, <1>4 DEF Grows
<1> QED BY <1>2, <1>4, <1>5 DEF Ended

LEMMA EndedDepth ==
  ASSUME IInv, Running, Top.pass = "first" => Top.closing, Top.pass # "second",
         Ended(files, files', This)
  PROVE  Tree' /\ DepthLimit'
<1>1. /\ Top \in Frame /\ This = Top.object /\ This \in DOMAIN files /\ Sound(files, Top)
      /\ Top.pass \in Passes /\ TypeOK /\ Tree
  BY Present DEF IInv
<1>2. /\ files' \in Seq(Object) /\ DOMAIN files' = DOMAIN files /\ Grows(files, files')
      /\ \A o \in DOMAIN files : files'[o].ran = files[o].ran
      /\ \A o \in DOMAIN files : o # This => files'[o].state = files[o].state
  BY DEF Ended
<1>3. Tree'
  BY <1>1, <1>2, TreeSame
<1>4. DepthLimit'
  <2>1. \A o \in DOMAIN files' :
          files'[o].depth = IF files'[o].parent = 0 THEN StartDepth
                            ELSE IF files'[o].pass = "ext" THEN files'[files'[o].parent].depth
                            ELSE files'[files'[o].parent].depth + 1
    BY <1>2, <1>3, DepthRule DEF Tree
  <2>2. ASSUME MaxDepth > 0, StartDepth <= MaxDepth, NEW o \in DOMAIN files
        PROVE  /\ files'[o].depth <= MaxDepth
               /\ (\E i \in DOMAIN files'[o].ran : files'[o].ran[i].pass # "ext")
                    => files'[o].depth < MaxDepth
               /\ files'[o].parent # 0 /\ files'[o].state = "done" /\ files'[o].depth = MaxDepth
                    => "max_depth_exceeded" \in files'[o].flags
    <3>1. /\ files[o].depth <= MaxDepth
          /\ (\E i \in DOMAIN files[o].ran : files[o].ran[i].pass # "ext")
               => files[o].depth < MaxDepth
          /\ files[o].parent # 0 /\ files[o].state = "done" /\ files[o].depth = MaxDepth
               => "max_depth_exceeded" \in files[o].flags
      BY <2>2 DEF IInv, DepthLimit
    <3>2. /\ files'[o].depth = files[o].depth /\ files'[o].parent = files[o].parent
          /\ files[o].flags \subseteq files'[o].flags /\ files'[o].ran = files[o].ran
      BY <1>2 DEF Grows
    <3>3. CASE o # This
      BY <1>2, <3>1, <3>2, <3>3
    <3>4. CASE o = This
      <4>1. ASSUME files[o].parent # 0, files[o].depth = MaxDepth
            PROVE  "max_depth_exceeded" \in files[o].flags
        <5>1. o # 1
          BY <1>1, <4>1 DEF Tree, Placed
        <5>2. Top.pass = "first" /\ Top.closing /\ Top.depth = files[o].depth + 1
          BY <1>1, <3>4, <5>1 DEF Sound, Passes
        <5>3. Top.depth > MaxDepth
          BY <4>1, <5>2, DepthAssumption
        <5> QED BY <1>1, <2>2, <3>4, <5>2, <5>3 DEF Sound, TooDeep
      <4> QED BY <3>1, <3>2, <4>1
    <3> QED BY <3>3, <3>4
  <2> QED BY <1>2, <2>1, <2>2 DEF DepthLimit
<1> QED BY <1>3, <1>4

LEMMA CallReturned ==
  ASSUME IInv, Running, IF Top.pass = "first" THEN Top.closing ELSE QueueDone,
         Top.pass # "second", Ended(files, files', This),
         stack' = Tail(stack), outcome' = IF Len(stack) = 1 THEN "none" ELSE outcome,
         UNCHANGED <<raised, late>>
  PROVE  IInv'
<1>1. /\ stack # <<>> /\ raised = "none" /\ Top \in Frame /\ Top.closing \in BOOLEAN
      /\ stack[1] = Top /\ 1 \in DOMAIN stack /\ This = Top.object /\ This \in DOMAIN files
      /\ Sound(files, Top) /\ DOMAIN stack = 1 .. Len(stack) /\ Len(stack) \in Nat \ {0}
  BY Present, FirstOf DEF IInv, TypeOK
<1>2. Tree' /\ DepthLimit'
  BY EndedDepth
<1>3. /\ files' \in Seq(Object) /\ DOMAIN files' = DOMAIN files /\ Grows(files, files')
      /\ \A o \in DOMAIN files : files'[o].ran = files[o].ran
      /\ \A o \in DOMAIN files : o # This => files'[o].state = files[o].state
      /\ files'[This].state = "done"
  BY DEF Ended
<1>4. RunsInOrder' /\ LateEntries(files') = LateEntries(files)
  BY <1>3, RanSame DEF IInv
<1>5. Top.kids = 0
  BY <1>1 DEF QueueDone, Sound
<1>6. \A i \in DOMAIN stack : i # 1 => stack[i].object # This
  BY SameObject DEF IInv
<1>7. /\ stack' \in Seq(Frame)
      /\ \A i \in DOMAIN stack' : i + 1 \in DOMAIN stack /\ i + 1 # 1 /\ stack'[i] = stack[i + 1]
      /\ \A i \in DOMAIN stack : i # 1 => i - 1 \in DOMAIN stack' /\ stack'[i - 1] = stack[i]
      /\ stack' = <<>> <=> Len(stack) = 1
      /\ Calls'
  <2>1. TypeOK /\ Calls
    BY DEF IInv
  <2>2. \A i \in DOMAIN stack : i # 1 => files'[stack[i].object].state = "open"
    BY <1>3, <1>6, <2>1 DEF Calls, Sound
  <2> QED BY <1>1, <1>3, <2>1, <2>2, CallsPopped
<1>8. TypeOK'
  BY <1>3, <1>7 DEF IInv, TypeOK
<1>9. Fitting'
  <2> SUFFICES ASSUME NEW i \in DOMAIN stack'
               PROVE  Fit(files'[stack'[i].object].ran, stack'[i])
    BY DEF Fitting
  <2>1. i + 1 \in DOMAIN stack /\ stack'[i] = stack[i + 1]
    BY <1>7
  <2>2. /\ Fit(files[stack[i + 1].object].ran, stack[i + 1])
        /\ stack[i + 1].object \in DOMAIN files
    BY <1>1, <2>1 DEF IInv, Fitting, Calls, Sound
  <2> QED BY <1>3, <2>1, <2>2
<1>10. Course'
  <2>1. /\ stack' # <<>> => outcome' = "running"
        /\ \A o \in DOMAIN files' : files'[o].state # "cut"
    <3>1. outcome = "running" /\ \A o \in DOMAIN files : files[o].state # "cut"
      BY <1>1 DEF IInv, Course
    <3> QED BY <1>1, <1>3, <1>7, <3>1
  <2>2. ASSUME NEW o \in DOMAIN files', files'[o].state = "open",
               \A i \in DOMAIN stack' : stack'[i].object # o
        PROVE  files'[o].ran = <<>>
    <3>1. o \in DOMAIN files /\ o # This
      BY <1>3, <2>2
    <3>2. files[o].state = "open" /\ files'[o].ran = files[o].ran
      BY <1>3, <2>2, <3>1
    <3>3. ASSUME NEW i \in DOMAIN stack
          PROVE  stack[i].object # o
      <4>1. CASE i = 1
        BY <1>1, <3>1, <4>1
      <4>2. CASE i # 1
        <5>1. i - 1 \in DOMAIN stack' /\ stack'[i - 1] = stack[i]
          BY <1>7, <4>2
        <5> QED BY <2>2, <5>1
      <4> QED BY <4>1, <4>2
    <3> QED BY <3>1, <3>2, <3>3 DEF IInv, Course
  <2>3. \A o \in DOMAIN files' : "scan_timeout" \in files'[o].flags => files'[o].state = "cut"
    BY <1>1, <1>3 DEF IInv, Course, Grows
  <2> QED BY <2>1, <2>2, <2>3 DEF Course
<1>11. Lateness'
  <2>1. LateEntries(files') = {}
    BY <1>1, <1>4 DEF IInv, Lateness
  <2> QED BY <2>1, StillInTime
<1>12. Accounts'
  <2>1. \A o, P : Kids(files', o, P) = Kids(files, o, P)
    BY <1>3, KidsSame
  <2>2. \A o \in DOMAIN files : \A P, n : Balanced(files, o, P, n) => Balanced(files', o, P, n)
    BY <1>3, <2>1 DEF Balanced
  <2>3. \A k \in DOMAIN files : files[k].state = "done" => files'[k].state = "done"
    BY <1>3
  <2>4. \A o : Kids(files, o, Passes) \subseteq DOMAIN files
    BY DEF Kids
  <2>5. ASSUME NEW o \in DOMAIN files', files'[o].state = "done"
        PROVE  /\ Balanced(files', o, Passes, 0)
               /\ \A k \in Kids(files', o, Passes) : files'[k].state = "done"
    <3>1. CASE o # This
      <4>1. o \in DOMAIN files /\ files[o].state = "done"
        BY <1>3, <2>5, <3>1
      <4>2. Balanced(files, o, Passes, 0) /\ \A k \in Kids(files, o, Passes) : files[k].state = "done"
        BY <4>1 DEF IInv, Accounts
      <4> QED BY <2>1, <2>2, <2>3, <2>4, <4>1, <4>2
    <3>2. CASE o = This
      <4>1. Balanced(files, This, Passes, 0)
        BY <1>1, <1>5 DEF IInv, Accounts
      <4>2. \A k \in Kids(files, This, Passes) : files[k].state = "done"
        BY <1>1 DEF IInv, Accounts
      <4> QED BY <1>1, <2>1, <2>2, <2>3, <2>4, <3>2, <4>1, <4>2
    <3> QED BY <3>1, <3>2
  <2>6. ASSUME NEW i \in DOMAIN stack'
        PROVE  LET f == stack'[i] IN
               /\ ~f.closing => Balanced(files', f.object, Passes, f.kids)
               /\ f.closing /\ (i = 1 \/ stack'[i - 1].pass # "second")
                    => Balanced(files', f.object, Passes, 0)
               /\ f.pass = "first" => Balanced(files', f.object, {"first"}, f.kids)
               /\ f.pass = "second" => Balanced(files', f.object, {"first"}, 0)
    <3>1. LET f == stack[i + 1] IN
            /\ ~f.closing => Balanced(files', f.object, Passes, f.kids)
            /\ f.closing /\ (i + 1 = 1 \/ stack[(i + 1) - 1].pass # "second")
                 => Balanced(files', f.object, Passes, 0)
            /\ f.pass = "first" => Balanced(files', f.object, {"first"}, f.kids)
            /\ f.pass = "second" => Balanced(files', f.object, {"first"}, 0)
      <4>1. i + 1 \in DOMAIN stack /\ stack[i + 1].object \in DOMAIN files
        BY <1>7 DEF IInv, Calls, Sound
      <4>2. LET f == stack[i + 1] IN
              /\ ~f.closing => Balanced(files, f.object, Passes, f.kids)
              /\ f.closing /\ (i + 1 = 1 \/ stack[(i + 1) - 1].pass # "second")
                   => Balanced(files, f.object, Passes, 0)
              /\ f.pass = "first" => Balanced(files, f.object, {"first"}, f.kids)
              /\ f.pass = "second" => Balanced(files, f.object, {"first"}, 0)
        BY <4>1 DEF IInv, Accounts
      <4> QED BY <2>2, <4>1, <4>2
    <3>2. CASE i = 1
      <4>1. stack[(i + 1) - 1].pass # "second" /\ stack'[i] = stack[i + 1]
        BY <1>1, <1>7, <3>2
      <4> QED BY <3>1, <4>1
    <3>3. CASE i # 1
      <4>1. i - 1 \in DOMAIN stack' /\ (i - 1) + 1 = i /\ (i + 1) - 1 = i
        <5>1. i + 1 \in DOMAIN stack /\ i \in DOMAIN stack
          BY <1>1, <1>7
        <5> QED BY <1>1, <1>7, <3>3, <5>1
      <4>2. stack'[i - 1] = stack[(i + 1) - 1] /\ stack'[i] = stack[i + 1]
        BY <1>7, <4>1
      <4> QED BY <3>1, <3>3, <4>2
    <3> QED BY <3>2, <3>3
  <2>7. ASSUME NEW i \in DOMAIN stack', NEW k \in Kids(files', stack'[i].object, Passes)
        PROVE  \/ files'[k].state = "done"
               \/ \E j \in 1 .. i - 1 : stack'[j].object = k
    <3>1. i + 1 \in DOMAIN stack /\ stack'[i] = stack[i + 1] /\ (i + 1) - 1 = i /\ i \in Nat
      BY <1>1, <1>7
    <3>2. \/ files[k].state = "done"
          \/ \E j \in 1 .. i : stack[j].object = k
      BY <1>1, <2>1, <3>1 DEF IInv, Accounts
    <3>3. k \in DOMAIN files
      BY <1>3 DEF Kids
    <3>4. CASE stack[1].object = k
      BY <1>1, <1>3, <3>4
    <3>5. ASSUME NEW j \in 1 .. i, j # 1, stack[j].object = k
          PROVE  \E m \in 1 .. i - 1 : stack'[m].object = k
      <4>1. j \in DOMAIN stack /\ j - 1 \in 1 .. i - 1
        BY <1>1, <3>1, <3>5
      <4>2. stack'[j - 1] = stack[j]
        BY <1>7, <3>5, <4>1
      <4> QED BY <3>5, <4>1, <4>2
    <3> QED BY <2>3, <3>2, <3>3, <3>4, <3>5
  <2> QED BY <2>5, <2>6, <2>7, SMTT(30) DEF Accounts
<1> QED BY <1>2, <1>4, <1>7, <1>8, <1>9, <1>10, <1>11, <1>12 DEF IInv

LEMMA ReturnStep ==
  ASSUME IInv, Return
  PROVE  IInv'
<1>1. /\ Running /\ (IF Top.pass = "first" THEN Top.closing ELSE QueueDone)
      /\ stack' = Tail(stack) /\ UNCHANGED <<raised, late>>
      /\ outcome' = IF Len(stack) = 1 THEN "none" ELSE outcome
  BY DEF Return
<1>2. This \in DOMAIN files /\ files \in Seq(Object)
  BY <1>1, Present DEF IInv, TypeOK
<1>3. CASE Top.pass = "second"
  <2>1. files' = NoteDepth(This)
    BY <1>3 DEF Return
  <2>2. Flagged(files, NoteDepth(This))
    BY <1>2, NoteDepthType
  <2>3. Flagged(files, files') /\ QueueDone
    BY <1>1, <1>3, <2>1, <2>2
  <2> QED BY <1>1, <1>3, <2>3, SecondReturned
<1>4. CASE Top.pass # "second"
  <2>1. files' = [files EXCEPT ![This].state = "done"]
    BY <1>4 DEF Return
  <2>2. Ended(files, files', This)
    BY <1>2, <2>1, EndedType
  <2> QED BY <1>1, <1>4, <2>2, CallReturned
<1> QED BY <1>3, <1>4

---------------------------------------------------------------------------
(* The result fs once the scans of some objects have been cut short.        *)
CutShort(fs, gs, objects, timeout) ==
  /\ gs \in Seq(Object) /\ DOMAIN gs = DOMAIN fs
  /\ \A o \in DOMAIN fs :
       /\ gs[o].parent = fs[o].parent /\ gs[o].pass = fs[o].pass
       /\ gs[o].depth = fs[o].depth /\ gs[o].ran = fs[o].ran
       /\ fs[o].flags \subseteq gs[o].flags
       /\ o \in objects => gs[o].state = "cut" /\ (timeout => "scan_timeout" \in gs[o].flags)
       /\ o \notin objects => gs[o].state = fs[o].state /\ gs[o].flags = fs[o].flags

LEMMA MarkType ==
  ASSUME files \in Seq(Object), NEW o \in DOMAIN files
  PROVE  /\ Mark(o) \in Object
         /\ Mark(o).parent = files[o].parent /\ Mark(o).pass = files[o].pass
         /\ Mark(o).depth = files[o].depth /\ Mark(o).ran = files[o].ran
         /\ files[o].flags \subseteq Mark(o).flags /\ Mark(o).state = "cut"
         /\ raised = "scan_timeout" => "scan_timeout" \in Mark(o).flags
<1>1. files[o] \in Object
  OBVIOUS
<1>2. CASE raised = "scan_timeout"
  <2>1. Mark(o) = [files[o] EXCEPT !.state = "cut", !.flags = @ \cup {"scan_timeout"}]
    BY <1>2 DEF Mark
  <2>2. files[o].flags \cup {"scan_timeout"} \in SUBSET Flags
    BY <1>1 DEF Object, Flags, OwnFlags
  <2> QED BY <1>1, <2>1, <2>2 DEF Object
<1>3. CASE raised # "scan_timeout"
  <2>1. Mark(o) = [files[o] EXCEPT !.state = "cut", !.flags = @]
    BY <1>3 DEF Mark
  <2> QED BY <1>1, <1>3, <2>1 DEF Object
<1> QED BY <1>2, <1>3

LEMMA CutShortType ==
  ASSUME files \in Seq(Object), NEW objects,
         files' = [o \in DOMAIN files |-> IF o \in objects THEN Mark(o) ELSE files[o]]
  PROVE  CutShort(files, files', objects, raised = "scan_timeout")
<1>1. DOMAIN files' = DOMAIN files /\ DOMAIN files = 1 .. Len(files) /\ Len(files) \in Nat
  OBVIOUS
<1>2. \A o \in DOMAIN files : o \in objects => files'[o] = Mark(o)
  OBVIOUS
<1>3. \A o \in DOMAIN files : o \notin objects => files'[o] = files[o]
  OBVIOUS
<1>4. \A o \in DOMAIN files : files[o] \in Object
  OBVIOUS
<1>5. files' = [o \in DOMAIN files' |-> files'[o]]
  OBVIOUS
<1>6. \A o \in DOMAIN files :
        /\ Mark(o) \in Object
        /\ Mark(o).parent = files[o].parent /\ Mark(o).pass = files[o].pass
        /\ Mark(o).depth = files[o].depth /\ Mark(o).ran = files[o].ran
        /\ files[o].flags \subseteq Mark(o).flags /\ Mark(o).state = "cut"
        /\ raised = "scan_timeout" => "scan_timeout" \in Mark(o).flags
  BY MarkType
<1>7. \A o \in 1 .. Len(files) : files'[o] \in Object
  BY <1>1, <1>2, <1>3, <1>4, <1>6
<1>8. files' \in Seq(Object)
  BY <1>1, <1>5, <1>7, FunctionIsSeq
<1>9. ASSUME NEW o \in DOMAIN files
      PROVE  /\ files'[o].parent = files[o].parent /\ files'[o].pass = files[o].pass
             /\ files'[o].depth = files[o].depth /\ files'[o].ran = files[o].ran
             /\ files[o].flags \subseteq files'[o].flags
             /\ o \in objects => files'[o].state = "cut"
             /\ o \in objects /\ raised = "scan_timeout" => "scan_timeout" \in files'[o].flags
             /\ o \notin objects => files'[o].state = files[o].state /\ files'[o].flags = files[o].flags
  BY <1>2, <1>3, <1>6
<1> QED BY <1>1, <1>8, <1>9 DEF CutShort

(* An exception leaves every call: a root that swallows one has no call     *)
(* around it.                                                               *)
LEMMA AllUnwound ==
  ASSUME IInv, Unwind
  PROVE  /\ stack' = <<>> /\ outcome' = raised' /\ raised' \in {"none", raised}
         /\ raised' = "none" => raised = "scan_timeout"
         /\ \E objects :
              /\ \A i \in DOMAIN stack : stack[i].object \in objects
              /\ objects \subseteq {stack[i].object : i \in DOMAIN stack}
              /\ CutShort(files, files', objects, raised = "scan_timeout")
<1>1. PICK n \in DOMAIN stack :
        /\ Contained(stack[n]) \/ n = Len(stack)
        /\ stack' = SubSeq(stack, n + 1, Len(stack))
        /\ LET cut == {stack[i].object : i \in {j \in 1 .. n : stack[j].pass # "second"}}
           IN files' = [o \in DOMAIN files |-> IF o \in cut THEN Mark(o) ELSE files[o]]
        /\ raised' = IF Contained(stack[n]) THEN "none" ELSE raised
        /\ outcome' = IF n < Len(stack) THEN outcome ELSE raised'
  BY DEF Unwind
<1>2. /\ stack \in Seq(Frame) /\ stack # <<>> /\ DOMAIN stack = 1 .. Len(stack)
      /\ Len(stack) \in Nat \ {0} /\ files \in Seq(Object)
  BY FirstOf DEF IInv, TypeOK, Unwind
<1>3. n = Len(stack)
  <2>1. SUFFICES ASSUME n # Len(stack)
                 PROVE  FALSE
    OBVIOUS
  <2>2. stack[n].pass = "ext"
    BY <1>1, <2>1 DEF Contained
  <2>3. n + 1 \in DOMAIN stack
    BY <1>2, <2>1
  <2> QED BY <2>2, <2>3 DEF IInv, Calls, Link
<1>4. stack' = <<>>
  BY <1>1, <1>2, <1>3
<1>5. /\ outcome' = raised' /\ raised' \in {"none", raised}
      /\ raised' = "none" => raised = "scan_timeout"
  <2>1. raised # "none"
    BY DEF Unwind
  <2> QED BY <1>1, <1>2, <1>3, <2>1 DEF Contained
<1>6. PICK objects : objects = {stack[i].object : i \in {j \in 1 .. n : stack[j].pass # "second"}}
  OBVIOUS
<1>7. CutShort(files, files', objects, raised = "scan_timeout")
  <2>1. files' = [o \in DOMAIN files |-> IF o \in objects THEN Mark(o) ELSE files[o]]
    BY <1>1, <1>6
  <2> QED BY <1>2, <2>1, CutShortType
<1>8. objects \subseteq {stack[i].object : i \in DOMAIN stack}
  BY <1>2, <1>3, <1>6
<1>9. ASSUME NEW i \in DOMAIN stack
      PROVE  stack[i].object \in objects
  <2>1. CASE stack[i].pass # "second"
    BY <1>2, <1>3, <1>6, <2>1
  <2>2. CASE stack[i].pass = "second"
    <3>1. i # Len(stack)
      BY <1>2, <2>2 DEF IInv, Calls
    <3>2. i + 1 \in DOMAIN stack
      BY <1>2, <3>1
    <3>3. stack[i].object = stack[i + 1].object /\ stack[i + 1].closing
      BY <2>2, <3>2 DEF IInv, Calls, Link
    <3>4. stack[i + 1].pass = "first"
      BY <3>2, <3>3 DEF IInv, Calls, Sound
    <3>5. stack[i + 1].object \in objects
      BY <1>2, <1>3, <1>6, <3>2, <3>4
    <3> QED BY <3>3, <3>5
  <2> QED BY <2>1, <2>2
<1> QED BY <1>4, <1>5, <1>7, <1>8, <1>9

LEMMA UnwindStep ==
  ASSUME IInv, Unwind
  PROVE  IInv'
<1>1. PICK objects :
        /\ \A i \in DOMAIN stack : stack[i].object \in objects
        /\ objects \subseteq {stack[i].object : i \in DOMAIN stack}
        /\ CutShort(files, files', objects, raised = "scan_timeout")
  BY AllUnwound
<1>2. /\ stack' = <<>> /\ outcome' = raised' /\ raised' \in {"none", raised}
      /\ raised' = "none" => raised = "scan_timeout"
  BY AllUnwound
<1>3. /\ stack # <<>> /\ raised # "none" /\ late' = late /\ files \in Seq(Object)
      /\ raised \in {"none", "scan_timeout", "quit", "error"} /\ late \in BOOLEAN
  BY DEF Unwind, IInv, TypeOK
<1>4. /\ files' \in Seq(Object) /\ DOMAIN files' = DOMAIN files
      /\ \A o \in DOMAIN files :
           /\ files'[o].parent = files[o].parent /\ files'[o].pass = files[o].pass
           /\ files'[o].depth = files[o].depth /\ files'[o].ran = files[o].ran
           /\ files[o].flags \subseteq files'[o].flags
      /\ \A o \in DOMAIN files : o \in objects => files'[o].state = "cut"
      /\ \A o \in DOMAIN files :
           o \in objects /\ raised = "scan_timeout" => "scan_timeout" \in files'[o].flags
      /\ \A o \in DOMAIN files :
           o \notin objects => files'[o].state = files[o].state /\ files'[o].flags = files[o].flags
  BY <1>1 DEF CutShort
<1>5. \A o \in DOMAIN files : o \in objects => files[o].state = "open"
  BY <1>1 DEF IInv, Calls, Sound
<1>6. \A o \in DOMAIN files : files[o].state # "cut"
  BY <1>3 DEF IInv, Course
<1>7. TypeOK'
  <2>1. <<>> \in Seq(Frame)
    OBVIOUS
  <2>2. raised' \in {"none", "scan_timeout", "quit", "error"}
    BY <1>2, <1>3
  <2>3. outcome' \in {"running", "none", "scan_timeout", "quit", "error"}
    BY <1>2, <2>2
  <2>4. stack' \in Seq(Frame)
    BY <1>2, <2>1
  <2> QED BY <1>3, <1>4, <2>2, <2>3, <2>4 DEF TypeOK
<1>8. Tree'
  <2>1. ASSUME NEW o \in DOMAIN files
        PROVE  Placed(files', o)
    <3>1. Placed(files, o)
      BY DEF IInv, Tree
    <3> QED BY <1>4, <3>1 DEF Placed
  <2>2. files # <<>> /\ Len(files') = Len(files)
    BY <1>3, <1>4 DEF IInv, Tree
  <2> QED BY <1>3, <1>4, <2>1, <2>2 DEF Tree
<1>9. Calls' /\ Fitting'
  <2>1. DOMAIN stack' = {}
    BY <1>2
  <2> QED BY <1>2, <2>1 DEF Calls, Fitting
<1>10. Course'
  <2>1. ASSUME NEW o \in DOMAIN files', files'[o].state = "open"
        PROVE  files'[o].ran = <<>>
    <3>1. o \in DOMAIN files /\ o \notin objects /\ files[o].state = "open"
      BY <1>4, <2>1
    <3>2. \A i \in DOMAIN stack : stack[i].object # o
      BY <1>1, <3>1
    <3>3. files[o].ran = <<>>
      BY <3>1, <3>2 DEF IInv, Course
    <3> QED BY <1>4, <3>1, <3>3
  <2>2. ASSUME outcome' \in {"none", "scan_timeout"}, NEW o \in DOMAIN files',
               files'[o].state = "cut"
        PROVE  "scan_timeout" \in files'[o].flags
    <3>1. raised = "scan_timeout"
      BY <1>2, <1>3, <2>2
    <3>2. o \in objects
      BY <1>4, <1>6, <2>2
    <3> QED BY <1>4, <2>2, <3>1, <3>2
  <2>3. ASSUME NEW o \in DOMAIN files', "scan_timeout" \in files'[o].flags
        PROVE  files'[o].state = "cut"
    <3>1. CASE o \in objects
      BY <1>4, <3>1
    <3>2. CASE o \notin objects
      BY <1>4, <2>3, <3>2 DEF IInv, Course
    <3> QED BY <3>1, <3>2
  <2> QED BY <1>2, <2>1, <2>2, <2>3 DEF Course
<1>11. RunsInOrder' /\ LateEntries(files') = LateEntries(files)
  BY <1>4, RanSame DEF IInv
<1>12. Lateness'
  <2>1. Cardinality(LateEntries(files)) <= 1
    BY DEF IInv, Lateness, LateStarts, LateEntries
  <2>2. Cardinality(LateEntries(files')) <= 1
    BY <1>11, <2>1
  <2> QED BY <1>2, <2>2 DEF Lateness, LateStarts, LateEntries
<1>13. DepthLimit'
  <2>1. \A o \in DOMAIN files : files'[o].state = "done" => files[o].state = "done"
    BY <1>4
  <2> QED BY <1>4, <1>8, <2>1, DepthKept DEF IInv
<1>14. Accounts'
  <2>1. \A o, P : Kids(files', o, P) = Kids(files, o, P)
    BY <1>4 DEF Kids
  <2>2. DOMAIN stack' = {}
    BY <1>2
  <2>3. ASSUME NEW o \in DOMAIN files', files'[o].state = "done"
        PROVE  /\ Balanced(files', o, Passes, 0)
               /\ \A k \in Kids(files', o, Passes) : files'[k].state = "done"
    <3>1. o \in DOMAIN files /\ files[o].state = "done"
      BY <1>4, <2>3
    <3>2. Balanced(files, o, Passes, 0) /\ \A k \in Kids(files, o, Passes) : files[k].state = "done"
      BY <3>1 DEF IInv, Accounts
    <3>3. files'[o].ran = files[o].ran
      BY <1>4, <3>1
    <3>4. Balanced(files', o, Passes, 0)
      BY <2>1, <3>2, <3>3 DEF Balanced
    <3>5. \A k \in Kids(files, o, Passes) : k \in DOMAIN files /\ k \notin objects
      BY <1>5, <3>2 DEF Kids
    <3> QED BY <1>4, <2>1, <3>2, <3>4, <3>5
  <2> QED BY <2>2, <2>3 DEF Accounts
<1> QED BY <1>7, <1>8, <1>9, <1>10, <1>11, <1>12, <1>13, <1>14 DEF IInv

---------------------------------------------------------------------------
(* The call for the root object, with which a scan begins.                  *)
LEMMA Begins ==
  ASSUME files \in Seq(Object), DOMAIN files = {1},
         files[1].parent = 0, files[1].pass = "none", files[1].depth = StartDepth,
         files[1].ran = <<>>, files[1].state = "open", "scan_timeout" \notin files[1].flags,
         NEW f \in Frame, stack = <<f>>, f.object = 1, f.rank = 0, f.kids = 0, f.closing = FALSE,
         \/ f.pass = "ext" /\ f.depth = StartDepth /\ f.queue = {}
         \/ f.pass = "first" /\ f.depth = StartDepth + 1 /\ f.next = <<>>,
         raised = "none", late = FALSE, outcome = "running"
  PROVE  IInv
<1>1. /\ stack \in Seq(Frame) /\ stack # <<>> /\ DOMAIN stack = {1} /\ stack[1] = f
      /\ Len(stack) = 1
  OBVIOUS
<1>2. DOMAIN files[1].ran = {}
  OBVIOUS
<1>3. TypeOK
  BY <1>1 DEF TypeOK
<1>4. Tree
  BY DEF Tree, Placed
<1>5. Calls
  <2>1. \A r \in f.queue : Priority[r] \in Nat
    BY RulesAssumption DEF Frame
  <2>2. Sound(files, f)
    BY <2>1 DEF Sound
  <2>3. \A i \in DOMAIN stack : i + 1 \notin DOMAIN stack
    BY <1>1
  <2> QED BY <1>1, <2>2, <2>3 DEF Calls
<1>6. Fitting
  BY <1>1, <1>2 DEF Fitting, Fit
<1>7. Course
  BY <1>1 DEF Course
<1>8. Lateness
  <2>1. {<<1, i>> : i \in {j \in DOMAIN files[1].ran :
          files[1].ran[j].late /\ files[1].ran[j].pass = "first"}} = {}
    BY <1>2
  <2>2. LateEntries(files) = {}
    BY <2>1 DEF LateEntries
  <2>3. Cardinality({}) = 0
    BY FS_EmptySet
  <2>4. Cardinality(LateEntries(files)) = 0
    BY <2>2, <2>3, Zenon
  <2>5. Cardinality(LateEntries(files)) <= 1
    BY <2>4
  <2> QED BY <2>2, <2>5 DEF Lateness, LateStarts, LateEntries
<1>9. Accounts
  <2>1. \A P : Kids(files, 1, P) = {}
    BY DEF Kids
  <2>2. \A P : Balanced(files, 1, P, 0)
    <3> SUFFICES ASSUME NEW P
                 PROVE  Balanced(files, 1, P, 0)
      OBVIOUS
    <3>1. Yields(files[1].ran, P) = {}
      BY <1>2 DEF Yields
    <3>2. Cardinality({}) = 0
      BY FS_EmptySet
    <3>3. Cardinality(Kids(files, 1, P)) = 0 /\ Cardinality(Yields(files[1].ran, P)) = 0
      BY <2>1, <3>1, <3>2, Zenon
    <3> QED BY <3>3 DEF Balanced
  <2> QED BY <1>1, <2>1, <2>2 DEF Accounts
<1>10. RunsInOrder
  BY <1>2 DEF RunsInOrder
<1>11. DepthLimit
  BY <1>2, DepthAssumption DEF DepthLimit
<1> QED BY <1>3, <1>4, <1>5, <1>6, <1>7, <1>8, <1>9, <1>10, <1>11 DEF IInv

LEMMA InitStep ==
  ASSUME Init
  PROVE  IInv
<1> DEFINE x == NewObject(0, "none", StartDepth)
           root == <<x>>
<1>1. /\ x \in Object /\ x.parent = 0 /\ x.pass = "none" /\ x.depth = StartDepth
      /\ x.ran = <<>> /\ x.state = "open" /\ x.flags = {}
  BY DepthAssumption DEF NewObject, Object
<1> HIDE DEF x
<1>2. root \in Seq(Object) /\ DOMAIN root = {1} /\ root[1] = x
  BY <1>1
<1>3. /\ raised = "none" /\ late = FALSE /\ outcome = "running"
      /\ \E named \in Requests :
           IF named = <<>>
           THEN \E rules \in SUBSET FirstRules :
                  /\ files = Matched(root, 1, rules)
                  /\ stack = <<FirstFrame(1, StartDepth, rules)>>
           ELSE files = root /\ stack = <<ExtFrame(1, StartDepth, named)>>
  BY DEF Init, x
<1> HIDE DEF root
<1>4. 0 \in 0 .. MaxKids /\ StartDepth \in Nat /\ StartDepth + 1 \in Nat
  BY DepthAssumption, BoundsAssumption
<1>5. ASSUME NEW rules \in SUBSET FirstRules, files = Matched(root, 1, rules),
             stack = <<FirstFrame(1, StartDepth, rules)>>
      PROVE  IInv
  <2> DEFINE f == FirstFrame(1, StartDepth, rules)
  <2>1. Flagged(root, files)
    <3>1. rules \in SUBSET Rules
      BY DEF Rules
    <3> QED BY <1>2, <1>5, <3>1, MatchedType
  <2>2. f \in Frame
    <3>1. rules \in SUBSET Rules /\ <<>> \in Seq(Modules) /\ {} \in SUBSET Modules
          /\ "first" \in Passes /\ 1 \in Nat /\ 0 \in Nat
      BY DEF Rules, Passes
    <3> QED BY <1>4, <3>1 DEF Frame, FirstFrame
  <2>3. /\ f.object = 1 /\ f.rank = 0 /\ f.kids = 0 /\ f.closing = FALSE
        /\ f.pass = "first" /\ f.depth = StartDepth + 1 /\ f.next = <<>>
    BY DEF FirstFrame
  <2>4. stack = <<f>>
    BY <1>5
  <2> HIDE DEF f
  <2>5. /\ files \in Seq(Object) /\ DOMAIN files = {1}
        /\ files[1].parent = 0 /\ files[1].pass = "none" /\ files[1].depth = StartDepth
        /\ files[1].ran = <<>> /\ files[1].state = "open" /\ "scan_timeout" \notin files[1].flags
    BY <1>1, <1>2, <2>1 DEF Flagged, Grows
  <2> QED BY <1>3, <2>2, <2>3, <2>4, <2>5, Begins
<1>6. ASSUME NEW named \in Requests, files = root, stack = <<ExtFrame(1, StartDepth, named)>>
      PROVE  IInv
  <2> DEFINE f == ExtFrame(1, StartDepth, named)
  <2>1. f \in Frame
    <3>1. named \in Seq(Modules) /\ {} \in SUBSET Rules /\ {} \in SUBSET Modules
          /\ "ext" \in Passes /\ 1 \in Nat /\ 0 \in Nat
      BY RulesAssumption DEF Passes
    <3> QED BY <1>4, <3>1 DEF Frame, ExtFrame
  <2>2. /\ f.object = 1 /\ f.rank = 0 /\ f.kids = 0 /\ f.closing = FALSE
        /\ f.pass = "ext" /\ f.depth = StartDepth /\ f.queue = {}
    BY DEF ExtFrame
  <2>3. stack = <<f>>
    BY <1>6
  <2> HIDE DEF f
  <2>4. /\ files \in Seq(Object) /\ DOMAIN files = {1}
        /\ files[1].parent = 0 /\ files[1].pass = "none" /\ files[1].depth = StartDepth
        /\ files[1].ran = <<>> /\ files[1].state = "open" /\ "scan_timeout" \notin files[1].flags
    BY <1>1, <1>2, <1>6
  <2> QED BY <1>3, <2>1, <2>2, <2>3, <2>4, Begins
<1> QED BY <1>3, <1>5, <1>6

---------------------------------------------------------------------------
LEMMA NextStep ==
  ASSUME IInv, [Next]_vars
  PROVE  IInv'
<1>1. CASE NextRule
  BY <1>1, NextRuleStep
<1>2. CASE SkipModule
  BY <1>2, SkipModuleStep
<1>3. CASE RunModule
  BY <1>3, RunModuleStep
<1>4. CASE DispatchChild
  BY <1>4, DispatchChildStep
<1>5. CASE SecondPass
  BY <1>5, SecondPassStep
<1>6. CASE Return
  BY <1>6, ReturnStep
<1>7. CASE Unwind
  BY <1>7, UnwindStep
<1>8. CASE Interrupt
  BY <1>8, InterruptStep
<1>9. CASE UNCHANGED vars
  BY <1>9 DEF vars, IInv, TypeOK, Tree, Calls, Fitting, Course, Lateness, LateStarts, Accounts,
              RunsInOrder, DepthLimit
<1> QED BY <1>1, <1>2, <1>3, <1>4, <1>5, <1>6, <1>7, <1>8, <1>9 DEF Next, Proceed

LEMMA IInvHolds == Spec => []IInv
<1>1. Init => IInv
  BY InitStep
<1>2. IInv /\ [Next]_vars => IInv'
  BY NextStep
<1> QED BY <1>1, <1>2, PTL DEF Spec

(* The result, the stack of calls and what a scan ends with have the shapes *)
(* the model gives them.                                                    *)
THEOREM DispatchTypeCorrect == Spec => []TypeOK
<1>1. IInv => TypeOK
  BY DEF IInv
<1> QED BY <1>1, IInvHolds, PTL

(* On one object modules run in the order of the passes and of the          *)
(* priorities, and none twice in a pass: _process_module_queue with its     *)
(* priority queue and moduleSeen.                                           *)
THEOREM ModulesRunInOrder == Spec => []RunsInOrder
<1>1. IInv => RunsInOrder
  BY DEF IInv
<1> QED BY <1>1, IInvHolds, PTL

(* No object lies deeper than maxdepth, and one at maxdepth whose scan came *)
(* to its end says so: the depth handed down by the calls of Dispatch is    *)
(* that of the tree, but for what modules named by the caller extract.      *)
THEOREM DepthIsLimited == Spec => []DepthLimit
<1>1. IInv => DepthLimit
  BY DEF IInv
<1> QED BY <1>1, IInvHolds, PTL

(* Once the timer of the scan has been swallowed, one module of a first     *)
(* pass starts at most: earlyQuitTime is looked at after every module.      *)
THEOREM FewLateStarts == Spec => []LateStarts
<1>1. IInv => LateStarts
  BY DEF IInv, Lateness
<1> QED BY <1>1, IInvHolds, PTL

(* When a scan has returned or timed out, every object on which modules ran *)
(* is done or bears the mark of a timeout, and none that is done bears it:  *)
(* the exception marks the object of every call that it leaves, however     *)
(* deep, and Dispatch leaves no call but by returning or by it.             *)
THEOREM TimeoutIsMarked == Spec => []TimeoutMarked
<1>1. IInv => TimeoutMarked
  <2> SUFFICES ASSUME IInv
               PROVE  TimeoutMarked
    OBVIOUS
  <2>1. ASSUME outcome \in {"none", "scan_timeout"}, NEW o \in DOMAIN files,
               files[o].state # "done", files[o].ran # <<>>
        PROVE  "scan_timeout" \in files[o].flags
    <3>1. stack = <<>>
      BY <2>1 DEF IInv, Course
    <3>2. files[o].state \in {"open", "done", "cut"}
      <4>1. files[o] \in Object
        BY DEF IInv, TypeOK
      <4> QED BY <4>1 DEF Object
    <3>3. files[o].state # "open"
      <4>1. DOMAIN stack = {}
        BY <3>1
      <4> QED BY <2>1, <4>1 DEF IInv, Course
    <3> QED BY <2>1, <3>2, <3>3 DEF IInv, Course
  <2>2. \A o \in DOMAIN files : "scan_timeout" \in files[o].flags => files[o].state = "cut"
    BY DEF IInv, Course
  <2> QED BY <2>1, <2>2 DEF TimeoutMarked
<1> QED BY <1>1, IInvHolds, PTL

(* The kids of an object whose first pass is over that are not done yet     *)
(* came of a later pass.                                                    *)
LEMMA FirstKidsDone ==
  ASSUME IInv, NEW i \in DOMAIN stack, stack[i].closing,
         NEW k \in Kids(files, stack[i].object, {"first"})
  PROVE  files[k].state = "done"
<1>1. /\ DOMAIN stack = 1 .. Len(stack) /\ Len(stack) \in Nat /\ i \in Nat
      /\ k \in DOMAIN files /\ files[k].parent = stack[i].object /\ files[k].pass = "first"
      /\ DOMAIN files \subseteq Nat
  BY DEF IInv, TypeOK, Kids
<1>2. k # stack[i].object
  <2>1. Placed(files, k)
    BY <1>1 DEF IInv, Tree
  <2>2. stack[i].object \in DOMAIN files
    BY DEF IInv, Calls, Sound
  <2> QED BY <1>1, <2>1, <2>2 DEF Placed
<1>3. Sound(files, stack[i]) /\ stack[i].pass = "first"
  BY DEF IInv, Calls, Sound
<1>4. ASSUME NEW j \in 1 .. i - 1, stack[j].object = k, stack[j].pass = "first"
      PROVE  FALSE
  <2>1. j \in DOMAIN stack /\ j + 1 \in DOMAIN stack /\ j + 1 <= i
    BY <1>1
  <2>2. /\ files[k].parent = stack[j + 1].object /\ files[k].pass = stack[j + 1].pass
        /\ ~stack[j + 1].closing
    BY <1>4, <2>1 DEF IInv, Calls, Link
  <2>3. j + 1 < i
    <3>1. j + 1 # i
      BY <2>2
    <3> QED BY <1>1, <2>1, <3>1
  <2>4. stack[j + 1].pass = "second"
    BY <1>1, <2>1, <2>2, <2>3 DEF IInv, Calls
  <2> QED BY <1>1, <2>2, <2>4
<1>5. ASSUME NEW j \in 1 .. i - 1, stack[j].object = k
      PROVE  FALSE
  <2>1. j \in DOMAIN stack /\ j + 1 \in DOMAIN stack /\ j + 1 <= i
    BY <1>1
  <2>2. stack[j].pass # "ext"
    BY <2>1 DEF IInv, Calls, Link
  <2>3. stack[j].pass \in Passes
    <3>1. stack[j] \in Frame
      BY <2>1 DEF IInv, TypeOK
    <3> QED BY <3>1 DEF Frame
  <2>4. CASE stack[j].pass = "second"
    <3>1. stack[j + 1].object = k /\ stack[j + 1].closing
      BY <1>5, <2>1, <2>4 DEF IInv, Calls, Link
    <3>2. stack[j + 1].pass = "first"
      BY <2>1, <3>1 DEF IInv, Calls, Sound
    <3>3. j + 1 # i
      BY <1>2, <3>1
    <3>4. j + 1 \in 1 .. i - 1
      BY <1>1, <2>1, <3>3
    <3> QED BY <1>4, <3>1, <3>2, <3>4
  <2> QED BY <1>4, <1>5, <2>2, <2>3, <2>4 DEF Passes
<1>6. k \in Kids(files, stack[i].object, Passes)
  BY DEF Kids, Passes
<1>7. \/ files[k].state = "done"
      \/ \E j \in 1 .. i - 1 : stack[j].object = k
      \/ /\ ~stack[1].closing /\ stack[1].object = stack[i].object
         /\ files[k].pass = stack[1].pass
  BY <1>6 DEF IInv, Accounts
<1>8. ASSUME ~stack[1].closing, stack[1].object = stack[i].object, files[k].pass = stack[1].pass
      PROVE  FALSE
  <2>1. 1 \in DOMAIN stack /\ 1 < i
    <3>1. i # 1
      BY <1>8
    <3> QED BY <1>1, <3>1
  <2>2. stack[1].pass = "second"
    BY <1>8, <2>1 DEF IInv, Calls
  <2> QED BY <1>1, <1>8, <2>2
<1> QED BY <1>5, <1>7, <1>8

(* Nothing a module extracted is left out of a scan that is reported as     *)
(* done, and conditional rules see all that the first pass extracted.       *)
THEOREM AllExtractedScanned == Spec => []ExtractedScanned
<1>1. IInv => ExtractedScanned
  <2> SUFFICES ASSUME IInv
               PROVE  ExtractedScanned
    OBVIOUS
  <2>1. \A o, P : Extracted(o, P) = Cardinality(Yields(files[o].ran, P))
    BY DEF Extracted, Yields
  <2>2. ASSUME NEW o \in DOMAIN files
        PROVE  Children(o) = Kids(files, o, Passes)
    <3>1. \A k \in DOMAIN files : Placed(files, k)
      BY DEF IInv, Tree
    <3>2. o # 0
      BY DEF IInv, TypeOK
    <3> QED BY <3>1, <3>2 DEF Children, Kids, Placed
  <2>3. \A o, P : Cardinality(Kids(files, o, P)) \in Nat
    BY KidsFinite DEF IInv, TypeOK
  <2>4. \A o, P : Balanced(files, o, P, 0) => Cardinality(Kids(files, o, P)) = Extracted(o, P)
    <3>1. \A c \in Nat : c + 0 = c
      OBVIOUS
    <3> QED BY <2>1, <2>3, <3>1 DEF Balanced
  <2>5. ASSUME NEW o \in DOMAIN files, files[o].state = "done"
        PROVE  /\ Cardinality(Children(o)) = Extracted(o, Passes)
               /\ \A k \in Children(o) : files[k].state = "done"
    <3>1. /\ Balanced(files, o, Passes, 0)
          /\ \A k \in Kids(files, o, Passes) : files[k].state = "done"
      BY <2>5 DEF IInv, Accounts
    <3> QED BY <2>2, <2>4, <3>1
  <2>6. ASSUME NEW i \in DOMAIN stack, stack[i].closing
        PROVE  LET first == {k \in Children(stack[i].object) : files[k].pass = "first"}
               IN /\ Cardinality(first) = Extracted(stack[i].object, {"first"})
                  /\ \A k \in first : files[k].state = "done"
    <3> DEFINE o == stack[i].object
    <3>1. o \in DOMAIN files /\ stack[i].pass = "first" /\ stack[i].kids = 0
      BY <2>6 DEF IInv, Calls, Sound
    <3>2. {k \in Children(o) : files[k].pass = "first"} = Kids(files, o, {"first"})
      BY DEF Children, Kids
    <3>3. Balanced(files, o, {"first"}, 0)
      BY <3>1 DEF IInv, Accounts
    <3>4. \A k \in Kids(files, o, {"first"}) : files[k].state = "done"
      BY <2>6, FirstKidsDone
    <3> QED BY <2>4, <3>2, <3>3, <3>4
  <2> QED BY <2>5, <2>6 DEF ExtractedScanned
<1> QED BY <1>1, IInvHolds, PTL

---------------------------------------------------------------------------
(* The verdict.  A module that stores one extracts nothing; the last module *)
(* that ran on an object has given the objects that are being scanned or    *)
(* still to be dispatched in its name.                                      *)
Fruitless ==
  \A o \in DOMAIN files : \A i \in DOMAIN files[o].ran :
    files[o].ran[i].stored # {} => files[o].ran[i].kids = 0

Giver(o) == files[o].ran # <<>> /\ Last(files[o].ran).kids > 0

Waits(i) == stack[i].kids > 0 \/ (i # 1 /\ stack[i - 1].pass = "first")

Giving ==
  raised = "none" =>
    /\ stack # <<>> => stack[Len(stack)].object = 1
    /\ \A o \in DOMAIN files : \A i \in DOMAIN stack :
         stack[i].object = o /\ Waits(i) => Giver(o)

(* What an object was last given as its verdict is still what it would be   *)
(* given now.                                                               *)
Standing(o) == files[o].state = "done" \/ (files[o].state = "open" /\ raised = "none")

RolledUp == \A o \in DOMAIN files : Standing(o) /\ Settled(o) => Disposition(o) = RollUp(o)

VInv == IInv /\ Fruitless /\ Giving /\ RolledUp

(* A step that leaves o, and what has run on the objects that came of it.   *)
Kept(o) ==
  /\ files'[o].flags = files[o].flags
  /\ \A k \in DOMAIN files : k = o \/ files[k].parent = o => files'[k].ran = files[k].ran

LEMMA VerdictKept ==
  ASSUME RolledUp, DOMAIN files \subseteq DOMAIN files',
         \A k \in DOMAIN files : files'[k].parent = files[k].parent,
         \A k \in DOMAIN files' : k \notin DOMAIN files => files'[k].ran = <<>>,
         NEW o \in DOMAIN files', Settled(o)',
         o \in DOMAIN files => Standing(o) /\ Kept(o)
  PROVE  (Disposition(o) = RollUp(o))'
<1>1. \A k \in DOMAIN files' : k \notin DOMAIN files => ~Collected(k)'
  <2> SUFFICES ASSUME NEW k \in DOMAIN files', k \notin DOMAIN files
               PROVE  ~Collected(k)'
    OBVIOUS
  <2>1. Dispositions(k)' = {}
    BY DEF Dispositions
  <2>2. Cardinality({}) = 0
    BY FS_EmptySet
  <2>3. Cardinality(Dispositions(k)') = 0
    BY <2>1, <2>2
  <2>4. 0 # 1
    OBVIOUS
  <2> QED BY <2>3, <2>4 DEF Collected
<1>2. o \in DOMAIN files
  BY <1>1 DEF Settled
<1>3. \A k \in DOMAIN files : k = o \/ files[k].parent = o =>
        Dispositions(k)' = Dispositions(k) /\ Disposition(k)' = Disposition(k)
  BY <1>2 DEF Kept, Dispositions, Disposition
<1>4. \A k \in DOMAIN files : k = o \/ files[k].parent = o => Collected(k)' = Collected(k)
  BY <1>3 DEF Collected
<1>5. Settled(o)
  BY <1>2, <1>4 DEF Kept, Settled
<1>6. \A k \in Children(o)' : Collected(k)' => k \in Children(o)
  BY <1>1 DEF Children
<1>7. \A k \in Children(o) : k \in Children(o)' /\ k \in DOMAIN files /\ files[k].parent = o
  BY DEF Children
<1>8. {c \in Children(o) : Collected(c)}' = {c \in Children(o) : Collected(c)}
  BY <1>4, <1>6, <1>7
<1>9. RollUp(o)' = RollUp(o)
  <2>1. \A k \in {c \in Children(o) : Collected(c)} : Disposition(k)' = Disposition(k)
    BY <1>3, <1>7
  <2>2. files'[o].flags = files[o].flags
    BY <1>2 DEF Kept
  <2> QED BY <1>8, <2>1, <2>2 DEF RollUp
<1>10. Disposition(o)' = Disposition(o) /\ Disposition(o) = RollUp(o)
  BY <1>2, <1>3, <1>5 DEF RolledUp
<1> QED BY <1>9, <1>10

(* An object that waits for what came of its last module has no verdict.    *)
LEMMA GiverUnsettled ==
  ASSUME IInv, Fruitless, NEW o \in DOMAIN files, Giver(o)
  PROVE  ~Settled(o)
<1>1. files[o].ran \in Seq(Entries)
  <2>1. files[o] \in Object
    BY DEF IInv, TypeOK
  <2> QED BY <2>1 DEF Object, Entries
<1>2. Len(files[o].ran) \in DOMAIN files[o].ran /\ Last(files[o].ran) = files[o].ran[Len(files[o].ran)]
  BY <1>1, LastOfTail DEF Giver
<1>3. Last(files[o].ran).stored # {} => Last(files[o].ran).kids = 0
  BY <1>2 DEF Fruitless
<1> QED BY <1>3 DEF Giver, Settled

LEMMA ParentWaits ==
  ASSUME IInv, Fruitless, Giving, Running, files[This].parent \in DOMAIN files
  PROVE  ~Settled(files[This].parent)
<1>1. /\ stack # <<>> /\ raised = "none" /\ 1 \in DOMAIN stack /\ stack[1] = Top
      /\ Top.pass \in Passes /\ Sound(files, Top) /\ This = Top.object /\ This \in DOMAIN files
      /\ DOMAIN stack = 1 .. Len(stack) /\ Len(stack) \in Nat \ {0} /\ 0 \notin DOMAIN files
      /\ stack[Len(stack)].object = 1 /\ stack[Len(stack)].pass # "second"
  BY Present, FirstOf DEF IInv, TypeOK, Giving, Calls
<1>2. This # 1 /\ Top.pass # "ext"
  <2>1. This # 1
    BY <1>1 DEF IInv, Tree, Placed
  <2> QED BY <1>1, <2>1 DEF Sound
<1>3. Len(stack) # 1
  BY <1>1, <1>2
<1>4. 2 \in DOMAIN stack /\ 1 + 1 = 2 /\ 2 + 1 = 3
  BY <1>1, <1>3
<1>5. Link(files, Top, stack[2])
  BY <1>1, <1>4 DEF IInv, Calls
<1>6. CASE Top.pass = "first"
  <2>1. files[This].parent = stack[2].object /\ Giver(stack[2].object)
    BY <1>1, <1>4, <1>5, <1>6 DEF Link, Giving, Waits
  <2> QED BY <2>1, GiverUnsettled
<1>7. CASE Top.pass = "second"
  <2>1. stack[2].object = This /\ stack[2].pass = "first"
    BY <1>1, <1>4, <1>5, <1>7 DEF Link, IInv, Calls, Sound
  <2>2. 3 \in DOMAIN stack
    <3>1. Len(stack) # 2
      BY <1>1, <1>2, <2>1
    <3> QED BY <1>1, <1>3, <3>1
  <2>3. Link(files, stack[2], stack[3]) /\ Giver(stack[3].object)
    <3>1. Link(files, stack[2], stack[3]) /\ files[This].parent = stack[3].object
      BY <1>1, <1>4, <2>1, <2>2 DEF IInv, Calls, Link
    <3>2. Waits(3)
      BY <2>1 DEF Waits
    <3> QED BY <1>1, <2>2, <3>1, <3>2 DEF Giving
  <2>4. files[This].parent = stack[3].object
    BY <2>1, <2>3 DEF Link
  <2> QED BY <2>3, <2>4, GiverUnsettled
<1> QED BY <1>1, <1>2, <1>6, <1>7 DEF Passes

(* The present call goes on in place, and only on its object does anything  *)
(* run.                                                                     *)
LEMMA GivingInPlace ==
  ASSUME IInv, Giving, Running, NEW w, w = This,
         \A o \in DOMAIN files : o # w => files'[o].ran = files[o].ran,
         NEW g \in Frame, stack' = <<g>> \o Tail(stack), g.object = Top.object, g.pass = Top.pass,
         raised' = "none" /\ g.kids > 0 => Giver(w)'
  PROVE  Giving'
<1>1. /\ stack # <<>> /\ raised = "none" /\ 1 \in DOMAIN stack /\ stack[1] = Top
      /\ w = Top.object /\ stack \in Seq(Frame)
      /\ DOMAIN stack = 1 .. Len(stack) /\ Len(stack) \in Nat \ {0}
  BY Present, FirstOf DEF IInv, TypeOK
<1>2. /\ Len(stack') = Len(stack) /\ DOMAIN stack' = DOMAIN stack /\ stack'[1] = g
      /\ \A i \in DOMAIN stack : i # 1 => stack'[i] = stack[i]
  BY <1>1, Replaced
<1>3. \A i \in DOMAIN stack : stack'[i].object = stack[i].object /\ stack'[i].pass = stack[i].pass
  BY <1>1, <1>2
<1>4. stack'[Len(stack')].object = 1 \/ raised' # "none"
  BY <1>1, <1>2, <1>3 DEF Giving
<1>5. ASSUME NEW i \in DOMAIN stack, i # 1, stack[i].object = w
      PROVE  i = 2 /\ Top.pass = "second" /\ stack[i].kids = 0
  <2>1. i = 2 /\ Top.pass = "second" /\ stack[i].closing
    BY <1>5, SameObject DEF IInv
  <2> QED BY <2>1 DEF IInv, Calls, Sound
<1>6. \A i \in DOMAIN stack : stack[i].object \in DOMAIN files
  BY DEF IInv, Calls, Sound
<1>7. \A o \in DOMAIN files : o # w /\ Giver(o) => Giver(o)'
  BY DEF Giver
<1>8. ASSUME raised' = "none", NEW o \in DOMAIN files', NEW i \in DOMAIN stack',
             stack'[i].object = o, Waits(i)'
      PROVE  Giver(o)'
  <2>0. i \in DOMAIN stack /\ stack[i].object = o /\ o \in DOMAIN files /\ i \in Nat
    BY <1>1, <1>2, <1>3, <1>6, <1>8
  <2>1. CASE i = 1
    <3>1. stack'[i].kids > 0 /\ o = w
      BY <1>1, <1>8, <2>0, <2>1 DEF Waits
    <3> QED BY <1>2, <1>8, <2>1, <3>1
  <2>2. CASE i # 1
    <3>1. i - 1 \in DOMAIN stack /\ stack'[i - 1].pass = stack[i - 1].pass
      BY <1>1, <1>3, <2>0, <2>2
    <3>2. Waits(i)
      BY <1>2, <1>8, <2>0, <2>2, <3>1 DEF Waits
    <3>3. Giver(o)
      BY <1>1, <2>0, <3>2 DEF Giving
    <3>4. o # w
      <4> SUFFICES ASSUME o = w
                   PROVE  FALSE
        OBVIOUS
      <4>1. i = 2 /\ Top.pass = "second" /\ stack[i].kids = 0
        BY <1>5, <2>0, <2>2
      <4> QED BY <1>1, <3>2, <4>1 DEF Waits
    <3> QED BY <1>7, <2>0, <3>3, <3>4
  <2> QED BY <2>1, <2>2
<1> QED BY <1>4, <1>8 DEF Giving

LEMMA SettledSame ==
  ASSUME NEW o, files'[o].ran = files[o].ran
  PROVE  Settled(o)' = Settled(o)
<1>1. Dispositions(o)' = Dispositions(o)
  BY DEF Dispositions
<1> QED BY <1>1 DEF Settled, Collected

LEMMA SettledRan ==
  ASSUME IInv, NEW o \in DOMAIN files, Settled(o)
  PROVE  /\ files[o].ran # <<>> /\ Len(files[o].ran) \in DOMAIN files[o].ran
         /\ files[o].ran[Len(files[o].ran)].pass # "first"
<1>1. files[o].ran \in Seq(Entries)
  <2>1. files[o] \in Object
    BY DEF IInv, TypeOK
  <2> QED BY <2>1 DEF Object, Entries
<1>2. files[o].ran # <<>>
  <2> SUFFICES ASSUME files[o].ran = <<>>
               PROVE  FALSE
    OBVIOUS
  <2>1. Dispositions(o) = {}
    BY DEF Dispositions
  <2>2. Cardinality(Dispositions(o)) = 0
    BY <2>1, FS_EmptySet
  <2> QED BY <2>2 DEF Settled, Collected
<1>3. Len(files[o].ran) \in DOMAIN files[o].ran /\ Last(files[o].ran) = files[o].ran[Len(files[o].ran)]
  BY <1>1, <1>2, LastOfTail
<1> QED BY <1>2, <1>3 DEF Settled

(* The step leaves what has run on the objects there are.                   *)
LEMMA VerdictsKept ==
  ASSUME VInv, DOMAIN files \subseteq DOMAIN files',
         \A k \in DOMAIN files : files'[k].parent = files[k].parent /\ files'[k].ran = files[k].ran,
         \A k \in DOMAIN files' : k \notin DOMAIN files => files'[k].ran = <<>>,
         \A o \in DOMAIN files : Standing(o)' /\ Settled(o)
           => Standing(o) /\ files'[o].flags = files[o].flags
  PROVE  Fruitless' /\ RolledUp'
<1>1. Fruitless'
  BY DEF VInv, Fruitless
<1>2. ASSUME NEW o \in DOMAIN files', Standing(o)', Settled(o)'
      PROVE  (Disposition(o) = RollUp(o))'
  <2>1. o \in DOMAIN files => Standing(o) /\ Kept(o)
    BY <1>2, SettledSame DEF Kept
  <2> QED BY <1>2, <2>1, VerdictKept DEF VInv
<1> QED BY <1>1, <1>2 DEF RolledUp

(* A module has left its entry at the object of the present call.           *)
LEMMA VerdictRecorded ==
  ASSUME VInv, Running, NEW w, w = This, NEW e \in Entries, Recorded(files, files', w, e),
         \A o \in DOMAIN files : o # w => files'[o].flags = files[o].flags,
         e.stored # {} => /\ e.kids = 0 /\ e.stored = {RollUp(w)}
                          /\ files'[w].flags = files[w].flags
  PROVE  /\ Fruitless' /\ RolledUp'
         /\ e.kids > 0 => Giver(w)'
<1>1. /\ w \in DOMAIN files /\ files[w].ran \in Seq(Entries) /\ raised = "none"
      /\ files[w].state = "open"
  BY Present DEF VInv, Sound
<1>2. /\ DOMAIN files' = DOMAIN files
      /\ \A k \in DOMAIN files : /\ files'[k].state = files[k].state
                                 /\ files'[k].parent = files[k].parent
                                 /\ k # w => files'[k].ran = files[k].ran
      /\ files'[w].ran = Append(files[w].ran, e)
  BY DEF Recorded, Grows
<1>3. PICK n \in Nat \ {0} :
        /\ DOMAIN files'[w].ran = 1 .. n /\ DOMAIN files[w].ran = 1 .. n - 1
        /\ files'[w].ran[n] = e /\ \A i \in 1 .. n - 1 : files'[w].ran[i] = files[w].ran[i]
        /\ files'[w].ran # <<>> /\ Last(files'[w].ran) = e
  <2>1. Len(files[w].ran) + 1 \in Nat \ {0} /\ DOMAIN files[w].ran = 1 .. Len(files[w].ran)
        /\ (Len(files[w].ran) + 1) - 1 = Len(files[w].ran)
    BY <1>1
  <2>2. /\ DOMAIN files'[w].ran = 1 .. Len(files[w].ran) + 1
        /\ files'[w].ran[Len(files[w].ran) + 1] = e
        /\ \A i \in 1 .. Len(files[w].ran) : files'[w].ran[i] = files[w].ran[i]
    BY <1>1, <1>2, AppendAny
  <2>3. files'[w].ran # <<>> /\ Last(files'[w].ran) = e
    BY <1>1, <1>2, LastOfAppend
  <2> QED BY <2>1, <2>2, <2>3
<1>4. Fruitless'
  <2> SUFFICES ASSUME NEW o \in DOMAIN files', NEW i \in DOMAIN files'[o].ran,
                      files'[o].ran[i].stored # {}
               PROVE  files'[o].ran[i].kids = 0
    BY DEF Fruitless
  <2>1. CASE o # w
    BY <1>2, <2>1 DEF VInv, Fruitless
  <2>2. CASE o = w /\ i = n
    BY <1>3, <2>2
  <2>3. CASE o = w /\ i # n
    <3>1. i \in 1 .. n - 1
      BY <1>3, <2>3
    <3> QED BY <1>1, <1>3, <2>3, <3>1 DEF VInv, Fruitless
  <2> QED BY <2>1, <2>2, <2>3
<1>5. e.kids > 0 => Giver(w)'
  BY <1>3 DEF Giver
<1>6. ASSUME NEW o \in DOMAIN files', o # w, Standing(o)', Settled(o)'
      PROVE  (Disposition(o) = RollUp(o))'
  <2>1. o \in DOMAIN files /\ Settled(o)
    BY <1>2, <1>6, SettledSame
  <2>2. files[w].parent # o
    BY <2>1, ParentWaits DEF VInv
  <2>3. Standing(o)
    BY <1>1, <1>2, <1>6, <2>1 DEF Standing
  <2>4. Kept(o)
    BY <1>2, <1>6, <2>1, <2>2 DEF Kept
  <2> QED BY <1>2, <1>6, <2>3, <2>4, VerdictKept DEF VInv
<1>7. ASSUME Settled(w)'
      PROVE  (Disposition(w) = RollUp(w))'
  <2>1. e.stored # {} /\ Cardinality(Dispositions(w)') = 1
    BY <1>3, <1>7 DEF Settled, Collected
  <2>2. Dispositions(w)' \in SUBSET (1 .. n) /\ n \in Dispositions(w)'
    BY <1>3, <2>1 DEF Dispositions
  <2>3. Dispositions(w)' = {n}
    <3>1. IsFiniteSet(Dispositions(w)')
      <4>1. IsFiniteSet(1 .. n)
        BY FS_Interval
      <4> QED BY <2>2, <4>1, FS_Subset
    <3>2. PICK x : Dispositions(w)' = {x}
      BY <2>1, <3>1, FS_Singleton
    <3> QED BY <2>2, <3>2
  <2>4. Disposition(w)' = RollUp(w)
    <3>1. Disposition(w)' = UNION UNION {files'[w].ran[i].stored : i \in {n}}
      BY <2>3 DEF Disposition
    <3>2. UNION {files'[w].ran[i].stored : i \in {n}} = e.stored
      BY <1>3
    <3> QED BY <2>1, <3>1, <3>2
  <2>5. \A k \in DOMAIN files : files[k].parent = w => k # w
    <3>1. Placed(files, w) /\ w \in Nat
      BY <1>1 DEF VInv, IInv, Tree, TypeOK
    <3> QED BY <1>1, <3>1 DEF Placed
  <2>6. Children(w)' = Children(w)
    BY <1>2 DEF Children
  <2>7. \A k \in Children(w) : /\ Dispositions(k)' = Dispositions(k)
                               /\ Disposition(k)' = Disposition(k)
    BY <1>2, <2>5 DEF Children, Dispositions, Disposition
  <2>8. \A k \in Children(w) : Collected(k)' = Collected(k)
    BY <2>7 DEF Collected
  <2>9. {c \in Children(w) : Collected(c)}' = {c \in Children(w) : Collected(c)}
    BY <2>6, <2>8
  <2>10. RollUp(w)' = RollUp(w)
    <3>1. \A k \in {c \in Children(w) : Collected(c)} : Disposition(k)' = Disposition(k)
      BY <2>7
    <3> QED BY <2>1, <2>9, <3>1 DEF RollUp
  <2> QED BY <2>4, <2>10
<1> QED BY <1>4, <1>5, <1>6, <1>7 DEF RolledUp

LEMMA NextRuleVerdict ==
  ASSUME VInv, NextRule
  PROVE  Fruitless' /\ Giving' /\ RolledUp'
<1>1. /\ Running /\ Top.kids = 0 /\ files' = files /\ raised' = raised
      /\ Top \in Frame /\ IInv /\ Giving
  BY Present DEF NextRule, VInv
<1>2. PICK r \in Top.queue : stack' = <<Taken(Top, r)>> \o Tail(stack)
  BY DEF NextRule, Goto
<1>3. r \in Rules /\ Priority[r] \in Nat /\ ScanModules[r] \in Seq(Modules)
  BY <1>1, RulesAssumption DEF Frame
<1>4. PICK g : g = Taken(Top, r)
  OBVIOUS
<1>5. g \in Frame /\ g.object = Top.object /\ g.pass = Top.pass /\ g.kids = 0
  BY <1>1, <1>3, <1>4 DEF Frame, Taken
<1>6. stack' = <<g>> \o Tail(stack) /\ ~(g.kids > 0)
  BY <1>2, <1>4, <1>5
<1>7. Giving'
  <2>1. PICK w : w = This
    OBVIOUS
  <2> QED BY <1>1, <1>5, <1>6, <2>1, GivingInPlace
<1>8. \A o \in DOMAIN files : Standing(o)' => Standing(o)
  BY <1>1 DEF Standing
<1> QED BY <1>1, <1>7, <1>8, VerdictsKept

LEMMA AfterType ==
  ASSUME NEW f \in Frame, f.next # <<>>, NEW n \in 0 .. MaxKids, NEW g, g = After(f, n)
  PROVE  g \in Frame /\ g.object = f.object /\ g.pass = f.pass /\ g.kids = n
<1>1. Head(f.next) \in Modules /\ Tail(f.next) \in Seq(Modules)
  <2>1. f.next \in Seq(Modules)
    BY DEF Frame
  <2> QED BY <2>1
<1> QED BY <1>1 DEF Frame, After

LEMMA SkipModuleVerdict ==
  ASSUME VInv, SkipModule
  PROVE  Fruitless' /\ Giving' /\ RolledUp'
<1>1. /\ Running /\ Top.next # <<>> /\ files' = files /\ raised' = raised
      /\ Top \in Frame /\ IInv /\ Giving
  BY Present DEF SkipModule, VInv
<1>2. 0 \in 0 .. MaxKids
  BY BoundsAssumption
<1>3. PICK g : g = After(Top, 0)
  OBVIOUS
<1>4. g \in Frame /\ g.object = Top.object /\ g.pass = Top.pass /\ g.kids = 0
  BY <1>1, <1>2, <1>3, AfterType
<1>5. stack' = <<g>> \o Tail(stack) /\ ~(g.kids > 0)
  BY <1>3, <1>4 DEF SkipModule, Goto
<1>6. Giving'
  <2>1. PICK w : w = This
    OBVIOUS
  <2> QED BY <1>1, <1>4, <1>5, <2>1, GivingInPlace
<1>7. \A o \in DOMAIN files : Standing(o)' => Standing(o)
  BY <1>1 DEF Standing
<1> QED BY <1>1, <1>6, <1>7, VerdictsKept

(* WithEntry changes the object of the present call only.                   *)
LEMMA EntryFlags ==
  ASSUME files \in Seq(Object), NEW w \in DOMAIN files, w = This, NEW e, NEW flags,
         files' = WithEntry(e, flags)
  PROVE  /\ \A o \in DOMAIN files : o # w => files'[o].flags = files[o].flags
         /\ flags = {} => files'[w].flags = files[w].flags
<1>1. files' = [files EXCEPT ![w].ran = Append(@, e), ![w].flags = @ \cup flags]
  BY DEF WithEntry
<1>2. PICK x : x = files[w]
  OBVIOUS
<1>3. PICK y : y = [x EXCEPT !.ran = Append(@, e), !.flags = @ \cup flags]
  OBVIOUS
<1>4. files'[w] = y /\ \A o \in DOMAIN files : o # w => files'[o] = files[o]
  BY <1>1, <1>2, <1>3
<1>5. x \in Object
  BY <1>2
<1>6. y.flags = x.flags \cup flags
  BY <1>3, <1>5 DEF Object
<1> QED BY <1>2, <1>4, <1>6

LEMMA RunModuleVerdict ==
  ASSUME VInv, RunModule
  PROVE  Fruitless' /\ Giving' /\ RolledUp'
<1>1. PICK w : w = This
  OBVIOUS
<1>2. /\ Running /\ MayRun(Top) /\ Top \in Frame /\ Top.next # <<>> /\ Top.kids = 0
      /\ w \in DOMAIN files /\ files \in Seq(Object) /\ IInv /\ Giving
      /\ stack # <<>> /\ stack \in Seq(Frame) /\ stack[1] = Top
  BY <1>1, Present DEF RunModule, MayRun, VInv, IInv, TypeOK
<1>3. PICK kids \in 0 .. MaxKids, flags \in {{}, {"module_timeout"}}, stored \in {{}, {RollUp(This)}} :
        /\ flags # {} => kids = 0 /\ stored = {}
        /\ Head(Top.next) \notin Exploders => kids = 0
        /\ Head(Top.next) # Dispositioner => stored = {}
        /\ \/ /\ files' = WithEntry(Entry(0, stored), flags)
              /\ raised' = "scan_timeout"
              /\ stack' = stack
           \/ /\ files' = WithEntry(Entry(kids, stored), flags)
              /\ stack' = <<After(Top, kids)>> \o Tail(stack)
              /\ raised' = raised
  BY DEF RunModule, Record, Goto
<1>4. /\ stored \in SUBSET SUBSET Flags /\ flags \in SUBSET {"module_timeout", "quit_scan"}
      /\ stored # {} => flags = {} /\ kids = 0 /\ stored = {RollUp(w)}
  <2>1. stored # {} => kids = 0
    BY <1>3, RulesAssumption
  <2> QED BY <1>1, <1>2, <1>3, <2>1, RollUpType
<1>5. ASSUME NEW n \in 0 .. MaxKids, stored # {} => n = 0,
             files' = WithEntry(Entry(n, stored), flags)
      PROVE  /\ Fruitless' /\ RolledUp'
             /\ \A o \in DOMAIN files : o # w => files'[o].ran = files[o].ran
             /\ n > 0 => Giver(w)'
  <2>1. PICK e : e = Entry(n, stored)
    OBVIOUS
  <2>2. e \in Entries /\ Recorded(files, files', w, e)
    <3>1. Record(n, stored, flags)
      BY <1>5 DEF Record
    <3> QED BY <1>1, <1>2, <1>4, <2>1, <3>1, RecordType
  <2>3. e.kids = n /\ e.stored = stored
    BY <2>1 DEF Entry
  <2>4. /\ \A o \in DOMAIN files : o # w => files'[o].flags = files[o].flags
        /\ flags = {} => files'[w].flags = files[w].flags
    BY <1>1, <1>2, <1>5, EntryFlags
  <2>5. /\ Fruitless' /\ RolledUp'
        /\ e.kids > 0 => Giver(w)'
    BY <1>1, <1>2, <1>4, <1>5, <2>2, <2>3, <2>4, VerdictRecorded
  <2> QED BY <2>2, <2>3, <2>5 DEF Recorded
<1>6. CASE /\ files' = WithEntry(Entry(0, stored), flags)
           /\ raised' = "scan_timeout"
           /\ stack' = stack
  <2>1. Fruitless' /\ RolledUp'
    BY <1>5, <1>6, BoundsAssumption
  <2>2. Giving'
    BY <1>6 DEF Giving
  <2> QED BY <2>1, <2>2
<1>7. CASE /\ files' = WithEntry(Entry(kids, stored), flags)
           /\ stack' = <<After(Top, kids)>> \o Tail(stack)
           /\ raised' = raised
  <2>1. /\ Fruitless' /\ RolledUp'
        /\ \A o \in DOMAIN files : o # w => files'[o].ran = files[o].ran
        /\ kids > 0 => Giver(w)'
    BY <1>4, <1>5, <1>7
  <2>2. PICK g : g = After(Top, kids)
    OBVIOUS
  <2>3. g \in Frame /\ g.object = Top.object /\ g.pass = Top.pass /\ g.kids = kids
    BY <1>2, <2>2, AfterType
  <2>4. stack' = <<g>> \o Tail(stack)
    BY <1>7, <2>2
  <2>5. Giving'
    BY <1>1, <1>2, <2>1, <2>3, <2>4, GivingInPlace
  <2> QED BY <2>1, <2>5
<1> QED BY <1>3, <1>6, <1>7

LEMMA InterruptVerdict ==
  ASSUME VInv, Interrupt
  PROVE  Fruitless' /\ Giving' /\ RolledUp'
<1>1. PICK w : w = This
  OBVIOUS
<1>2. PICK exception \in {"scan_timeout", "quit"}, inModule \in BOOLEAN :
        /\ raised' = exception
        /\ \/ /\ MayRun(Top)
              /\ files' = WithEntry(Entry(0, {}), IF exception = "quit" THEN {"quit_scan"} ELSE {})
           \/ files' = files
  BY DEF Interrupt, Record
<1>3. /\ Running /\ raised = "none" /\ w \in DOMAIN files /\ files \in Seq(Object) /\ IInv
      /\ raised' # "none"
  BY <1>1, <1>2, Present DEF Interrupt, VInv, IInv, TypeOK
<1>4. Giving'
  BY <1>3 DEF Giving
<1>5. ASSUME MayRun(Top),
             files' = WithEntry(Entry(0, {}), IF exception = "quit" THEN {"quit_scan"} ELSE {})
      PROVE  Fruitless' /\ RolledUp'
  <2>1. PICK e : e = Entry(0, {})
    OBVIOUS
  <2>2. PICK flags : flags = IF exception = "quit" THEN {"quit_scan"} ELSE {}
    OBVIOUS
  <2>3. /\ Record(0, {}, flags) /\ flags \in SUBSET {"module_timeout", "quit_scan"}
        /\ Top.next # <<>>
    BY <1>5, <2>2 DEF Record, MayRun
  <2>4. e \in Entries /\ Recorded(files, files', w, e)
    <3>1. 0 \in 0 .. MaxKids /\ {} \in SUBSET SUBSET Flags
      BY BoundsAssumption
    <3> QED BY <1>1, <1>3, <2>1, <2>3, <3>1, RecordType
  <2>5. e.stored = {}
    BY <2>1 DEF Entry
  <2>6. \A o \in DOMAIN files : o # w => files'[o].flags = files[o].flags
    BY <1>1, <1>3, <1>5, EntryFlags
  <2> QED BY <1>1, <1>3, <2>4, <2>5, <2>6, VerdictRecorded
<1>6. ASSUME files' = files
      PROVE  Fruitless' /\ RolledUp'
  <2>1. \A o \in DOMAIN files : Standing(o)' => Standing(o)
    BY <1>3, <1>6 DEF Standing
  <2> QED BY <1>6, <2>1, VerdictsKept
<1> QED BY <1>2, <1>4, <1>5, <1>6

(* A call is made, or the second pass of an object begins: b is what        *)
(* becomes of the present call, a the new one.                              *)
LEMMA GivingPushed ==
  ASSUME IInv, Giving, Running, DOMAIN files \subseteq DOMAIN files',
         \A o \in DOMAIN files : files'[o].ran = files[o].ran,
         NEW w, w = This, NEW a \in Frame, NEW b \in Frame, stack' = <<a, b>> \o Tail(stack),
         b.object = Top.object, b.pass = Top.pass, a.kids = 0,
         b.kids > 0 \/ a.pass = "first" => Giver(w)
  PROVE  Giving'
<1>1. /\ stack # <<>> /\ raised = "none" /\ 1 \in DOMAIN stack /\ stack[1] = Top
      /\ w = Top.object /\ stack \in Seq(Frame)
      /\ DOMAIN stack = 1 .. Len(stack) /\ Len(stack) \in Nat \ {0}
  BY Present, FirstOf DEF IInv, TypeOK
<1>2. /\ DOMAIN stack' = 1 .. Len(stack) + 1 /\ stack' # <<>> /\ Len(stack') = Len(stack) + 1
      /\ stack'[1] = a /\ stack'[2] = b
  BY <1>1, Pushed
<1>3. ASSUME NEW i \in DOMAIN stack', i # 1
      PROVE  /\ i - 1 \in DOMAIN stack /\ (i - 1) + 1 = i
             /\ stack'[i].object = stack[i - 1].object
             /\ stack'[i].pass = stack[i - 1].pass
             /\ i # 2 => stack'[i] = stack[i - 1]
  BY <1>1, <1>3, Shifted
<1>4. \A i \in DOMAIN stack : stack[i].object \in DOMAIN files
  BY DEF IInv, Calls, Sound
<1>5. \A o \in DOMAIN files : Giver(o) => Giver(o)'
  BY DEF Giver
<1>6. stack'[Len(stack')].object = 1
  <2>1. Len(stack') \in DOMAIN stack' /\ Len(stack') # 1 /\ Len(stack') - 1 = Len(stack)
    BY <1>1, <1>2
  <2>2. stack'[Len(stack')].object = stack[Len(stack)].object
    BY <1>3, <2>1
  <2> QED BY <1>1, <2>2 DEF Giving
<1>7. ASSUME NEW o \in DOMAIN files', NEW i \in DOMAIN stack', stack'[i].object = o, Waits(i)'
      PROVE  Giver(o)'
  <2>1. i # 1
    BY <1>2, <1>7 DEF Waits
  <2>2. i \in Nat /\ i - 1 \in DOMAIN stack /\ stack[i - 1].object = o /\ o \in DOMAIN files
    BY <1>1, <1>2, <1>3, <1>4, <1>7, <2>1
  <2>3. CASE i = 2
    <3>1. o = w /\ i - 1 = 1
      BY <1>1, <2>2, <2>3
    <3>2. b.kids > 0 \/ a.pass = "first"
      BY <1>2, <1>7, <2>3, <3>1 DEF Waits
    <3> QED BY <1>5, <2>2, <3>1, <3>2
  <2>4. CASE i # 2
    <3>1. /\ stack'[i] = stack[i - 1] /\ i - 1 # 1 /\ i - 1 \in DOMAIN stack' /\ (i - 1) - 1 \in DOMAIN stack
          /\ stack'[i - 1].pass = stack[(i - 1) - 1].pass
      <4>1. i - 1 # 1 /\ i - 1 \in DOMAIN stack'
        BY <1>1, <1>2, <2>1, <2>2, <2>4
      <4> QED BY <1>3, <2>1, <2>4, <4>1
    <3>2. Waits(i - 1)
      BY <1>7, <3>1 DEF Waits
    <3>3. Giver(o)
      BY <1>1, <2>2, <3>2 DEF Giving
    <3> QED BY <1>5, <2>2, <3>3
  <2> QED BY <2>3, <2>4
<1> QED BY <1>6, <1>7 DEF Giving

(* Matched and NoteDepth change flags of few objects.                       *)
LEMMA MatchedFlags ==
  ASSUME NEW fs \in Seq(Object), NEW o \in DOMAIN fs, NEW rules,
         NEW i \in DOMAIN fs, i # o, i # fs[o].parent
  PROVE  Matched(fs, o, rules)[i].flags = fs[i].flags
<1>1. PICK x \in Object : x = fs[i]
  OBVIOUS
<1>2. Matched(fs, o, rules)[i] = [x EXCEPT !.flags = (@ \cup {}) \cup {}]
  BY <1>1 DEF Matched
<1>3. [x EXCEPT !.flags = (@ \cup {}) \cup {}].flags = x.flags
  BY DEF Object
<1> QED BY <1>1, <1>2, <1>3

LEMMA DispatchChildVerdict ==
  ASSUME VInv, DispatchChild
  PROVE  Fruitless' /\ Giving' /\ RolledUp'
<1> DEFINE grown == Append(files, NewObject(This, Top.pass, Top.depth))
           c == Len(grown)
           rest == [Top EXCEPT !.kids = @ - 1]
<1>0. PICK w : w = This
  OBVIOUS
<1>1. Running /\ HasChild(Top) /\ IInv /\ Giving
  BY DEF DispatchChild, VInv
<1>2. /\ stack # <<>> /\ raised = "none" /\ Top \in Frame /\ w \in DOMAIN files /\ w = Top.object
      /\ stack[1] = Top /\ 1 \in DOMAIN stack
      /\ Top.pass \in Passes /\ files \in Seq(Object) /\ Top.kids \in Nat \ {0}
  BY <1>0, <1>1, Present, KidsLeft DEF IInv, TypeOK
<1>3. Added(files, grown, w, Top.pass, Top.depth)
  <2>1. w \in Nat /\ Top.depth \in Nat
    BY <1>2 DEF Frame
  <2> QED BY <1>0, <1>2, <2>1, Appended
<1>4. /\ grown \in Seq(Object) /\ c = Len(files) + 1 /\ c \in DOMAIN grown /\ c \notin DOMAIN files
      /\ DOMAIN files \subseteq DOMAIN grown
      /\ grown[c].parent = w /\ \A o \in DOMAIN files : grown[o] = files[o]
  <2>1. DOMAIN files = 1 .. Len(files) /\ Len(files) \in Nat
    BY <1>2
  <2>2. NewObject(This, Top.pass, Top.depth) \in Object
    <3>1. This \in Nat /\ Top.depth \in Nat
      BY <1>0, <1>2 DEF Frame
    <3> QED BY <1>2, <3>1 DEF NewObject, Object
  <2>3. \A o \in DOMAIN files : grown[o] = files[o]
    BY <1>2, <2>1, <2>2, AppendAny
  <2> QED BY <1>2, <1>3, <2>1, <2>3 DEF Added
<1>5. OneLess(Top, rest)
  BY <1>2, OneKidLess
<1>6. Giver(w)
  <2>1. Waits(1)
    BY <1>2 DEF Waits
  <2> QED BY <1>2, <2>1 DEF VInv, Giving
<1>7. ~Settled(w)
  BY <1>2, <1>6, GiverUnsettled DEF VInv
<1>8. PICK rules \in SUBSET FirstRules :
        \/ /\ stack' = <<FirstFrame(c, Top.depth, rules), rest>> \o Tail(stack)
           /\ files' = Matched(grown, c, rules)
           /\ raised' = raised
        \/ /\ stack' = <<rest>> \o Tail(stack)
           /\ files' = grown
           /\ raised' \in {"error", "scan_timeout"}
  BY DEF DispatchChild, Goto
<1> HIDE DEF grown, c, rest
<1>9. /\ Added(files, files', w, Top.pass, Top.depth)
      /\ \A o \in DOMAIN files : o # w => files'[o].flags = files[o].flags
  <2>1. CASE files' = grown
    BY <1>3, <1>4, <2>1
  <2>2. CASE files' = Matched(grown, c, rules)
    <3>1. Flagged(grown, files')
      <4>1. rules \in SUBSET Rules
        BY DEF Rules
      <4> QED BY <1>4, <2>2, <4>1, MatchedType
    <3>2. ASSUME NEW o \in DOMAIN files, o # w
          PROVE  files'[o].flags = files[o].flags
      <4>1. o \in DOMAIN grown /\ o # c /\ o # grown[c].parent
        BY <1>4, <3>2
      <4>2. Matched(grown, c, rules)[o].flags = grown[o].flags
        BY <1>4, <4>1, MatchedFlags
      <4> QED BY <1>4, <2>2, <4>2
    <3> QED BY <1>2, <1>3, <3>1, <3>2, AddedFlagged
  <2> QED BY <1>8, <2>1, <2>2
<1>10. /\ DOMAIN files \subseteq DOMAIN files'
       /\ \A o \in DOMAIN files : /\ files'[o].state = files[o].state /\ files'[o].ran = files[o].ran
                                  /\ files'[o].parent = files[o].parent
       /\ \A o \in DOMAIN files' : o \notin DOMAIN files => files'[o].ran = <<>>
  <2>1. DOMAIN files = 1 .. Len(files) /\ Len(files) \in Nat
    BY <1>2
  <2> QED BY <1>9, <2>1 DEF Added, Grows
<1>11. Fruitless' /\ RolledUp'
  <2>1. \A o \in DOMAIN files : Standing(o)' => Standing(o)
    BY <1>2, <1>10 DEF Standing
  <2> QED BY <1>7, <1>9, <1>10, <2>1, VerdictsKept
<1>12. CASE raised' # "none"
  <2>1. Giving'
    BY <1>12 DEF Giving
  <2> QED BY <1>11, <2>1
<1>13. CASE stack' = <<FirstFrame(c, Top.depth, rules), rest>> \o Tail(stack)
  <2> DEFINE a == FirstFrame(c, Top.depth, rules)
  <2>1. a.kids = 0
    BY DEF FirstFrame
  <2>2. a \in Frame
    <3>1. c \in Nat /\ Top.depth + 1 \in Nat /\ rules \in SUBSET Rules /\ 0 \in 0 .. MaxKids
      BY <1>2, <1>4, BoundsAssumption DEF Frame, Rules
    <3>2. <<>> \in Seq(Modules) /\ {} \in SUBSET Modules /\ "first" \in Passes
      BY DEF Passes
    <3> QED BY <3>1, <3>2 DEF Frame, FirstFrame
  <2>3. stack' = <<a, rest>> \o Tail(stack)
    BY <1>13
  <2> HIDE DEF a
  <2>4. rest \in Frame /\ rest.object = Top.object /\ rest.pass = Top.pass
    BY <1>5 DEF OneLess
  <2>5. Giving'
    BY <1>0, <1>1, <1>6, <1>10, <2>1, <2>2, <2>3, <2>4, GivingPushed
  <2> QED BY <1>11, <2>5
<1> QED BY <1>8, <1>12, <1>13

LEMMA NoteDepthFlags ==
  ASSUME files \in Seq(Object), NEW w \in DOMAIN files
  PROVE  /\ \A o \in DOMAIN files : o # w => NoteDepth(w)[o] = files[o]
         /\ TooDeep(Top) /\ "max_depth_exceeded" \in files[w].flags
              => NoteDepth(w)[w].flags = files[w].flags
<1>1. PICK x \in Object : x = files[w]
  OBVIOUS
<1>2. CASE ~TooDeep(Top)
  BY <1>2 DEF NoteDepth
<1>3. CASE TooDeep(Top)
  <2>1. /\ \A o \in DOMAIN files : o # w => NoteDepth(w)[o] = files[o]
        /\ NoteDepth(w)[w] = [x EXCEPT !.flags = @ \cup {"max_depth_exceeded"}]
    BY <1>1, <1>3 DEF NoteDepth
  <2>2. [x EXCEPT !.flags = @ \cup {"max_depth_exceeded"}].flags
          = x.flags \cup {"max_depth_exceeded"}
    BY DEF Object
  <2> QED BY <1>1, <2>1, <2>2
<1> QED BY <1>2, <1>3

LEMMA SecondPassVerdict ==
  ASSUME VInv, SecondPass
  PROVE  Fruitless' /\ Giving' /\ RolledUp'
<1> DEFINE g == [Top EXCEPT !.closing = TRUE]
<1>0. PICK w : w = This
  OBVIOUS
<1>1. /\ Running /\ Top.pass = "first" /\ ~Top.closing /\ QueueDone /\ raised' = raised
      /\ IInv /\ Giving
  BY DEF SecondPass, VInv
<1>2. PICK rules \in SUBSET SecondRules :
        /\ files' = Matched(NoteDepth(w), w, rules)
        /\ stack' = ((IF rules = {} THEN <<>> ELSE <<SecondFrame(Top, rules)>>) \o <<g>>)
                       \o Tail(stack)
  BY <1>0 DEF SecondPass
<1>3. /\ stack # <<>> /\ raised = "none" /\ Top \in Frame /\ w \in DOMAIN files
      /\ files \in Seq(Object) /\ w = Top.object /\ stack[1] = Top /\ 1 \in DOMAIN stack
  BY <1>0, <1>1, Present DEF IInv, TypeOK
<1>4. g \in Frame /\ g.object = Top.object /\ g.pass = Top.pass /\ g.kids = 0
  BY <1>1, <1>3 DEF QueueDone, Frame
<1> HIDE DEF g
<1>5. Flagged(files, NoteDepth(w)) /\ \A o \in DOMAIN files : o # w => NoteDepth(w)[o] = files[o]
  BY <1>3, NoteDepthType, NoteDepthFlags
<1>6. PICK fs \in Seq(Object) : fs = NoteDepth(w)
  BY <1>5 DEF Flagged
<1>7. /\ Flagged(files, fs) /\ Flagged(fs, files') /\ w \in DOMAIN fs /\ DOMAIN fs = DOMAIN files
      /\ fs[w].parent = files[w].parent /\ files' = Matched(fs, w, rules)
  <2>1. Flagged(files, fs) /\ files' = Matched(fs, w, rules)
    BY <1>2, <1>5, <1>6
  <2>2. w \in DOMAIN fs /\ rules \in SUBSET Rules
    BY <1>3, <2>1 DEF Flagged, Rules
  <2>3. Flagged(fs, Matched(fs, w, rules))
    BY <2>2, MatchedType
  <2> QED BY <1>3, <2>1, <2>2, <2>3 DEF Flagged, Grows
<1>8. Flagged(files, files')
  BY <1>7, FlaggedTwice
<1>9. /\ DOMAIN files' = DOMAIN files
      /\ \A o \in DOMAIN files : /\ files'[o].state = files[o].state /\ files'[o].ran = files[o].ran
                                 /\ files'[o].parent = files[o].parent
  BY <1>8 DEF Flagged, Grows
<1>10. ASSUME NEW o \in DOMAIN files, o # w, o # files[w].parent
       PROVE  files'[o].flags = files[o].flags
  <2>1. Matched(fs, w, rules)[o].flags = fs[o].flags
    BY <1>7, <1>10, MatchedFlags
  <2>2. fs[o] = files[o]
    BY <1>5, <1>6, <1>10
  <2> QED BY <1>7, <2>1, <2>2
<1>11. ~Settled(w)
  <2>1. \A i \in DOMAIN files[w].ran : files[w].ran[i].pass = "first"
    BY <1>1, <1>3 DEF IInv, Fitting, Fit
  <2> QED BY <1>1, <1>3, <2>1, SettledRan
<1>12. Fruitless' /\ RolledUp'
  <2>1. \A o \in DOMAIN files : Settled(o) => o # w /\ o # files[w].parent
    BY <1>0, <1>1, <1>11, ParentWaits DEF VInv
  <2>2. \A o \in DOMAIN files : Standing(o)' => Standing(o)
    BY <1>3, <1>9 DEF Standing
  <2> QED BY <1>9, <1>10, <2>1, <2>2, VerdictsKept
<1>13. CASE rules = {}
  <2>1. <<>> \o <<g>> = <<g>>
    OBVIOUS
  <2>2. stack' = <<g>> \o Tail(stack) /\ ~(g.kids > 0)
    BY <1>2, <1>4, <1>13, <2>1
  <2>3. Giving'
    BY <1>0, <1>1, <1>4, <1>9, <2>2, GivingInPlace
  <2> QED BY <1>12, <2>3
<1>14. CASE rules # {}
  <2> DEFINE a == SecondFrame(Top, rules)
  <2>1. a.kids = 0 /\ a.pass = "second"
    BY DEF SecondFrame
  <2>2. a \in Frame
    <3>1. Top.object \in Nat /\ Top.depth \in Nat /\ rules \in SUBSET Rules /\ 0 \in 0 .. MaxKids
      BY <1>3, BoundsAssumption DEF Frame, Rules
    <3>2. <<>> \in Seq(Modules) /\ {} \in SUBSET Modules /\ "second" \in Passes
      BY DEF Passes
    <3> QED BY <3>1, <3>2 DEF Frame, SecondFrame
  <2>3. stack' = (<<a>> \o <<g>>) \o Tail(stack)
    BY <1>2, <1>14
  <2> HIDE DEF a
  <2>4. stack' = <<a, g>> \o Tail(stack)
    BY <1>4, <2>2, <2>3, TwoCalls
  <2>5. ~(g.kids > 0) /\ a.pass # "first"
    BY <1>4, <2>1
  <2>6. Giving'
    BY <1>0, <1>1, <1>4, <1>9, <2>1, <2>2, <2>4, <2>5, GivingPushed
  <2> QED BY <1>12, <2>6
<1> QED BY <1>13, <1>14

LEMMA ReturnVerdict ==
  ASSUME VInv, Return
  PROVE  Fruitless' /\ Giving' /\ RolledUp'
<1>0. PICK w : w = This
  OBVIOUS
<1>1. /\ Running /\ stack' = Tail(stack) /\ raised' = raised /\ IInv /\ Giving
  BY DEF Return, VInv
<1>2. /\ w \in DOMAIN files /\ files \in Seq(Object) /\ stack \in Seq(Frame) /\ stack # <<>>
      /\ raised = "none" /\ w = Top.object /\ stack[1] = Top /\ Sound(files, Top)
      /\ 1 \in DOMAIN stack /\ files[w].state = "open"
  BY <1>0, <1>1, Present DEF IInv, TypeOK, Sound
<1>3. /\ DOMAIN files' = DOMAIN files
      /\ \A o \in DOMAIN files : /\ files'[o].ran = files[o].ran /\ files'[o].parent = files[o].parent
                                 /\ files'[o].flags = files[o].flags
                                 /\ files'[o].state = files[o].state \/ o = w
  <2>1. CASE Top.pass = "second"
    <3>1. files' = NoteDepth(w) /\ Flagged(files, NoteDepth(w))
      BY <1>0, <1>2, <2>1, NoteDepthType DEF Return
    <3>2. 2 \in DOMAIN stack /\ 1 + 1 = 2
      <4>1. DOMAIN stack = 1 .. Len(stack) /\ Len(stack) \in Nat \ {0} /\ Len(stack) # 1
        BY <1>1, <1>2, <2>1, FirstOf DEF IInv, Calls
      <4> QED BY <4>1
    <3>3. Link(files, Top, stack[2]) /\ Sound(files, stack[2])
      BY <1>1, <1>2, <3>2 DEF IInv, Calls
    <3>4. TooDeep(Top) => "max_depth_exceeded" \in files[w].flags
      <4>1. /\ stack[2].object = w /\ stack[2].closing /\ stack[2].pass = "first"
            /\ stack[2].depth = Top.depth
        BY <1>2, <2>1, <3>3 DEF Link, Sound
      <4> QED BY <3>3, <4>1 DEF Sound, TooDeep
    <3>5. \A o \in DOMAIN files : files'[o].flags = files[o].flags
      <4>1. CASE TooDeep(Top)
        BY <1>2, <3>1, <3>4, <4>1, NoteDepthFlags
      <4>2. CASE ~TooDeep(Top)
        BY <3>1, <4>2 DEF NoteDepth
      <4> QED BY <4>1, <4>2
    <3> QED BY <3>1, <3>5 DEF Flagged, Grows
  <2>2. CASE Top.pass # "second"
    <3>1. files' = [files EXCEPT ![w].state = "done"]
      BY <1>0, <2>2 DEF Return
    <3>2. PICK x \in Object : x = files[w]
      BY <1>2
    <3>3. files'[w] = [x EXCEPT !.state = "done"]
      BY <1>2, <3>1, <3>2
    <3>4. /\ files'[w].ran = files[w].ran /\ files'[w].parent = files[w].parent
          /\ files'[w].flags = files[w].flags
      BY <3>2, <3>3 DEF Object
    <3> QED BY <1>2, <3>1, <3>4
  <2> QED BY <2>1, <2>2
<1>4. Fruitless' /\ RolledUp'
  <2>1. \A o \in DOMAIN files : Standing(o)' => Standing(o)
    BY <1>2, <1>3 DEF Standing
  <2> QED BY <1>3, <2>1, VerdictsKept
<1>5. Giving'
  <2>1. /\ stack' \in Seq(Frame) /\ Len(stack') = Len(stack) - 1 /\ DOMAIN stack' = 1 .. Len(stack) - 1
        /\ \A i \in DOMAIN stack' : stack'[i] = stack[i + 1]
        /\ Len(stack) \in Nat \ {0} /\ (stack' = <<>> <=> Len(stack) = 1)
        /\ DOMAIN stack = 1 .. Len(stack)
    <3>1. stack \in Seq(Frame) /\ stack # <<>> /\ stack' = Tail(stack)
      BY <1>1, <1>2
    <3>2. /\ stack' \in Seq(Frame) /\ Len(stack') = Len(stack) - 1 /\ DOMAIN stack' = 1 .. Len(stack) - 1
          /\ \A i \in DOMAIN stack' : stack'[i] = stack[i + 1]
          /\ Len(stack) \in Nat \ {0} /\ (stack' = <<>> <=> Len(stack) = 1)
      BY <3>1, Popped
    <3> QED BY <3>1, <3>2
  <2>2. stack' # <<>> => stack'[Len(stack')].object = 1
    <3> SUFFICES ASSUME stack' # <<>>
                 PROVE  stack'[Len(stack')].object = 1
      OBVIOUS
    <3>1. Len(stack') \in DOMAIN stack' /\ Len(stack') + 1 = Len(stack)
      BY <2>1
    <3>2. stack'[Len(stack')] = stack[Len(stack)]
      BY <2>1, <3>1
    <3> QED BY <1>1, <1>2, <3>2 DEF Giving
  <2>3. ASSUME NEW o \in DOMAIN files', NEW i \in DOMAIN stack', stack'[i].object = o, Waits(i)'
        PROVE  Giver(o)'
    <3>1. i \in Nat \ {0} /\ i + 1 \in DOMAIN stack /\ i + 1 # 1 /\ (i + 1) - 1 = i /\ stack'[i] = stack[i + 1]
          /\ (i # 1 => i - 1 \in DOMAIN stack' /\ (i - 1) + 1 = i)
      <4>1. i \in DOMAIN stack'
        BY <2>3
      <4>2. i \in Nat \ {0} /\ i + 1 # 1 /\ (i + 1) - 1 = i /\ (i - 1) + 1 = i
        BY <2>1, <4>1
      <4>3. i # 1 => i - 1 \in DOMAIN stack'
        BY <2>1, <4>1, <4>2
      <4>4. i + 1 \in DOMAIN stack /\ stack'[i] = stack[i + 1]
        BY <2>1, <4>1
      <4> QED BY <4>2, <4>3, <4>4
    <3>2. i # 1 => stack'[i - 1] = stack[i]
      BY <2>1, <3>1
    <3>3. Waits(i + 1)
      BY <2>3, <3>1, <3>2 DEF Waits
    <3>4. Giver(o)
      BY <1>1, <1>2, <1>3, <2>3, <3>1, <3>3 DEF Giving
    <3> QED BY <1>3, <2>3, <3>4 DEF Giver
  <2> QED BY <2>2, <2>3 DEF Giving
<1> QED BY <1>4, <1>5

LEMMA UnwindVerdict ==
  ASSUME VInv, Unwind
  PROVE  Fruitless' /\ Giving' /\ RolledUp'
<1>1. PICK objects :
        /\ \A i \in DOMAIN stack : stack[i].object \in objects
        /\ objects \subseteq {stack[i].object : i \in DOMAIN stack}
        /\ CutShort(files, files', objects, raised = "scan_timeout")
  BY AllUnwound DEF VInv
<1>2. stack' = <<>> /\ IInv
  BY AllUnwound DEF VInv
<1>3. Giving'
  <2>1. DOMAIN stack' = {}
    BY <1>2
  <2> QED BY <1>2, <2>1 DEF Giving
<1>4. /\ DOMAIN files' = DOMAIN files
      /\ \A o \in DOMAIN files : files'[o].parent = files[o].parent /\ files'[o].ran = files[o].ran
      /\ \A o \in DOMAIN files : o \in objects => files'[o].state = "cut"
      /\ \A o \in DOMAIN files :
           o \notin objects => files'[o].state = files[o].state /\ files'[o].flags = files[o].flags
  BY <1>1 DEF CutShort
<1>5. ASSUME NEW o \in DOMAIN files, Standing(o)', Settled(o)
      PROVE  Standing(o) /\ files'[o].flags = files[o].flags
  <2>1. o \notin objects /\ files'[o].state = files[o].state /\ files'[o].flags = files[o].flags
    BY <1>4, <1>5 DEF Standing
  <2>2. files[o].state # "open"
    <3>1. files[o].ran # <<>>
      BY <1>2, <1>5, SettledRan
    <3> QED BY <1>1, <1>2, <2>1, <3>1 DEF IInv, Course
  <2> QED BY <1>5, <2>1, <2>2 DEF Standing
<1>6. Fruitless' /\ RolledUp'
  BY <1>4, <1>5, VerdictsKept
<1> QED BY <1>3, <1>6

LEMMA InitVerdict ==
  ASSUME Init
  PROVE  VInv
<1>1. IInv
  BY InitStep
<1> DEFINE root == <<NewObject(0, "none", StartDepth)>>
<1>2. PICK o0 \in Object : /\ o0 = NewObject(0, "none", StartDepth) /\ o0.ran = <<>>
  <2>1. NewObject(0, "none", StartDepth) \in Object
    BY DepthAssumption DEF NewObject, Object
  <2> QED BY <2>1 DEF NewObject
<1>3. root \in Seq(Object) /\ DOMAIN root = {1} /\ root[1] = o0
  BY <1>2
<1>4. /\ raised = "none"
      /\ \/ /\ \E rules \in SUBSET FirstRules :
                 files = Matched(root, 1, rules) /\ stack = <<FirstFrame(1, StartDepth, rules)>>
         \/ \E named \in Requests : files = root /\ stack = <<ExtFrame(1, StartDepth, named)>>
  BY DEF Init
<1> HIDE DEF root
<1>5. DOMAIN files = {1} /\ files[1].ran = <<>>
  <2>1. ASSUME NEW rules \in SUBSET FirstRules, files = Matched(root, 1, rules)
        PROVE  DOMAIN files = {1} /\ files[1].ran = <<>>
    <3>1. Flagged(root, files)
      <4>1. 1 \in DOMAIN root /\ rules \in SUBSET Rules
        BY <1>3 DEF Rules
      <4> QED BY <1>3, <2>1, <4>1, MatchedType
    <3> QED BY <1>2, <1>3, <3>1 DEF Flagged
  <2> QED BY <1>2, <1>3, <1>4, <2>1
<1>6. PICK f : stack = <<f>> /\ f.object = 1 /\ f.kids = 0
  BY <1>4 DEF FirstFrame, ExtFrame
<1>7. DOMAIN stack = {1} /\ Len(stack) = 1 /\ stack[1] = f
  BY <1>6
<1>8. Giving
  BY <1>6, <1>7 DEF Giving, Waits
<1>9. \A o \in DOMAIN files : ~Settled(o)
  BY <1>1, <1>5, SettledRan
<1>10. Fruitless /\ RolledUp
  BY <1>5, <1>9 DEF Fruitless, RolledUp
<1> QED BY <1>1, <1>8, <1>10 DEF VInv

LEMMA VInvHolds == Spec => []VInv
<1>1. ASSUME VInv, [Next]_vars
      PROVE  VInv'
  <2>1. IInv'
    BY <1>1, NextStep DEF VInv
  <2>2. Fruitless' /\ Giving' /\ RolledUp'
    <3>1. CASE UNCHANGED vars
      <4>1. files' = files /\ stack' = stack /\ raised' = raised
        BY <3>1 DEF vars
      <4>2. Giving'
        BY <1>1, <4>1 DEF VInv, Giving, Waits, Giver
      <4>3. \A o \in DOMAIN files : Standing(o)' => Standing(o)
        BY <4>1 DEF Standing
      <4> QED BY <1>1, <4>1, <4>2, <4>3, VerdictsKept
    <3> QED BY <1>1, <3>1, NextRuleVerdict, SkipModuleVerdict, RunModuleVerdict, InterruptVerdict,
               DispatchChildVerdict, SecondPassVerdict, ReturnVerdict, UnwindVerdict DEF Next, Proceed
  <2> QED BY <2>1, <2>2 DEF VInv
<1> QED BY <1>1, InitVerdict, PTL DEF Spec

(* What lies in an object lies in one of those that report to it.           *)
LEMMA WithinUnfold ==
  ASSUME NEW o \in DOMAIN files
  PROVE  Within(o) = {o} \cup UNION {Within(k) : k \in Reporting(o)}
<1> DEFINE D == DOMAIN files
           Closed(S) == \A s \in S : Reporting(s) \subseteq S
           U == {o} \cup UNION {Within(k) : k \in Reporting(o)}
<1>1. \A k \in D : /\ Within(k) \subseteq D /\ k \in Within(k)
                   /\ \A S \in SUBSET D : k \in S /\ Closed(S) => Within(k) \subseteq S
  BY DEF Within
<1>2. \A k \in D : Reporting(k) \subseteq D
  BY DEF Reporting, Children
<1>3. \A k \in D : Closed(Within(k))
  BY <1>2 DEF Within
<1> HIDE DEF Closed
<1>4. U \subseteq Within(o)
  <2>1. Reporting(o) \subseteq Within(o)
    BY <1>1, <1>3 DEF Closed
  <2>2. \A k \in Reporting(o) : Within(k) \subseteq Within(o)
    BY <1>1, <1>2, <1>3, <2>1
  <2> QED BY <1>1, <2>2
<1>5. Within(o) \subseteq U
  <2>1. U \in SUBSET D
    BY <1>1, <1>2
  <2>2. Closed(U)
    <3> SUFFICES ASSUME NEW s \in U
                 PROVE  Reporting(s) \subseteq U
      BY DEF Closed
    <3>1. CASE s = o
      BY <1>1, <1>2, <3>1
    <3>2. ASSUME NEW k \in Reporting(o), s \in Within(k)
          PROVE  Reporting(s) \subseteq U
      BY <1>2, <1>3, <3>2 DEF Closed
    <3> QED BY <3>1, <3>2
  <2>3. o \in U
    OBVIOUS
  <2> HIDE DEF U
  <2> QED BY <1>1, <2>1, <2>2, <2>3
<1> QED BY <1>4, <1>5

(* For an object that is done, what DISPOSITIONER has collected on it is    *)
(* what it would be given by going through all that lies in it, level by    *)
(* level.  Of the objects for which that were not so take the last one      *)
(* added: those that report to it were added later.                         *)
THEOREM VerdictCovers == Spec => []VerdictCoversTree
<1>1. VInv => VerdictCoversTree
  <2> SUFFICES ASSUME VInv
               PROVE  VerdictCoversTree
    OBVIOUS
  <2> DEFINE Complete(o) == files[o].state = "done" /\ \A p \in Within(o) : Settled(p)
             Wrong == {o \in DOMAIN files : Complete(o) /\ Disposition(o) # FlagRollup(Within(o))}
  <2>1. DOMAIN files = 1 .. Len(files) /\ Len(files) \in Nat
    BY DEF VInv, IInv, TypeOK
  <2>2. ASSUME NEW o \in DOMAIN files, Complete(o), NEW k \in Reporting(o)
        PROVE  k \in DOMAIN files /\ k > o /\ Complete(k)
    <3>1. k \in DOMAIN files /\ files[k].parent = o /\ Within(k) \subseteq Within(o)
      BY WithinUnfold DEF Reporting, Children
    <3>2. Placed(files, k) /\ k # 1
      BY <2>1, <3>1 DEF VInv, IInv, Tree, Placed
    <3>3. k \in Kids(files, o, Passes)
      BY <3>1, <3>2 DEF Kids, Placed
    <3>4. files[k].state = "done"
      BY <2>2, <3>3 DEF VInv, IInv, Accounts
    <3> QED BY <2>1, <2>2, <3>1, <3>2, <3>4 DEF Placed
  <2>3. Wrong = {}
    <3> SUFFICES ASSUME Wrong # {}
                 PROVE  FALSE
      OBVIOUS
    <3>1. PICK o \in Wrong : \A k \in Wrong : k <= o
      <4>1. Wrong \subseteq 1 .. Len(files)
        BY <2>1
      <4> HIDE DEF Wrong
      <4> QED BY <2>1, <4>1, GreatestUpTo
    <3>2. o \in DOMAIN files /\ Complete(o)
      OBVIOUS
    <3>3. \A k \in Reporting(o) : Disposition(k) = FlagRollup(Within(k))
      <4>1. \A k \in Reporting(o) : k \in DOMAIN files /\ Complete(k) /\ ~(k <= o)
        BY <2>1, <2>2, <3>2
      <4> QED BY <3>1, <4>1
    <3>4. o \in Within(o)
      BY <3>2, WithinUnfold
    <3>5. Disposition(o) = RollUp(o)
      BY <3>2, <3>4 DEF VInv, RolledUp, Standing
    <3>6. RollUp(o) = files[o].flags \cup UNION {Disposition(k) : k \in Reporting(o)}
      BY DEF RollUp, Reporting
    <3>7. FlagRollup(Within(o)) = files[o].flags \cup UNION {FlagRollup(Within(k)) : k \in Reporting(o)}
      <4>1. Within(o) = {o} \cup UNION {Within(k) : k \in Reporting(o)}
        BY <3>2, WithinUnfold
      <4> QED BY <4>1 DEF FlagRollup
    <3>8. Disposition(o) = FlagRollup(Within(o))
      BY <3>3, <3>5, <3>6, <3>7
    <3> QED BY <3>8
  <2> QED BY <2>3 DEF VerdictCoversTree
<1> QED BY <1>1, VInvHolds, PTL
===========================================================================
