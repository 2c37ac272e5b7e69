---------------------------- MODULE LaikaMilter ----------------------------
(***************************************************************************)
(* laikamilter.py: the mail filter.  libmilter makes one LaikaMilter object *)
(* per connection of the mail server (the MTA) and calls it for the parts   *)
(* of each mail in turn.  At the end of the message the object has the mail *)
(* scanned and answers what the MTA is to do with it.                       *)
(*                                                                         *)
(* There is no callback for the start of a mail other than envfrom: the     *)
(* object initialises itself again there, if it finds that the last mail    *)
(* had a sender.                                                           *)
(*                                                                         *)
(* The order of the calls is that of libmilter (external); eom may be       *)
(* repeated, as the comment in _generateArchiveFileName says.  A mail is    *)
(* its number, and the content of a buffer the set of mails it comes from.  *)
(* Texts, logs, archive files and which of the servers is asked are left    *)
(* out.                                                                    *)
(***************************************************************************)
EXTENDS MilterConfig, SequencesExt

CONSTANTS
  MaxMails,       \* bound: mails of a connection
  MaxRcpts,       \* bound: recipients of a mail
  Dispositions    \* results of the scans

ASSUME MilterAssumption ==
  /\ MaxMails \in Nat /\ MaxRcpts \in Nat /\ "default" \notin Dispositions

Mails == 1 .. MaxMails

VARIABLES
  phase,          \* what the MTA has sent of the mail
  at,             \* the callback that is being executed
  sender,         \* the argument of envfrom: "" is the null sender <>
  self,           \* the LaikaMilter object
  mail,           \* ghost: the mail
  fresh,          \* ghost: the object was initialised for this mail
  ground,         \* ghost: what self.rtnToMTA rests on
  given,          \* ghost: the recipients of the mail
  logged,         \* ghost: the recipients logged for it
  answer          \* ghost: the last answer to an eom

sessionVars == <<phase, at, sender, self, mail, fresh, ground, given, logged, answer>>
vars == <<configVars, sessionVars>>
ghosts == <<mail, fresh, ground, given, logged, answer>>

NoGround == [mail |-> 0, held |-> {}]

NoAnswer == [mail |-> 0, code |-> "CONTINUE", fresh |-> FALSE, ground |-> NoGround]

(* Of its configuration the object uses the mode and the modes for          *)
(* dispositions, the Dispositioner the servers.                             *)
Kept(conf) == [mode |-> conf.mode, modes |-> conf.modes]

(* Slips: the recipients, or the buffers, of the last mail are kept.        *)
ClearedButRcpts(s) ==
  [s EXCEPT !.conf = Kept(Defaults), !.from = "", !.headers = {},
            !.buffer = "none", !.held = {}]

ClearedButBuffer(s) ==
  [s EXCEPT !.conf = Kept(Defaults), !.from = "", !.headers = {}, !.rcpts = <<>>]

(* __init__: the fields set before the configuration is loaded, and those   *)
(* set after it.                                                            *)
Cleared(s) ==
  [s EXCEPT !.conf = Kept(Defaults), !.from = "", !.headers = {},
            !.rcpts = <<>>, !.buffer = "none", !.held = {}]
Initialised(s, conf) == [s EXCEPT !.conf = Kept(conf), !.rtn = "CONTINUE", !.scanned = FALSE]

(* A new object; `listed' says that the pair of the client and the server   *)
(* of the connection is in global_whitelist.                                *)
Blank == [conf |-> Kept(Defaults), listed |-> FALSE, from |-> "", headers |-> {}, rcpts |-> <<>>,
          buffer |-> "none", held |-> {}, rtn |-> "CONTINUE", scanned |-> FALSE]

(* The MTA has connected, and the object could read a configuration.        *)
MilterInit ==
  /\ ConfigInit
  /\ phase = "idle" /\ at = "idle" /\ sender = ""
  /\ \E c \in Confs :
       \E listed \in BOOLEAN :
         self = [Blank EXCEPT !.listed = listed,
                   !.conf = [mode |-> c.mode, modes |-> Merge(c.modes, Defaults.modes)]]
  /\ mail = 0 /\ fresh = TRUE /\ ground = NoGround
  /\ given = {} /\ logged = <<>>
  /\ answer = NoAnswer

---------------------------------------------------------------------------
(* envfrom, once the object is ready.  In the mode "shutdown" the mail is   *)
(* answered at once, unless the configuration has no mode for that: then    *)
(* the exception ends in the answer CONTINUE, and the MTA goes on.          *)
Begin(s, from) ==
  IF s.conf.mode = "shutdown"
  THEN /\ self' = s
       /\ phase' = IF "inmaintmode" \in DOMAIN s.conf.modes
                      /\ s.conf.modes["inmaintmode"] # "CONTINUE" THEN "idle" ELSE "rcpt"
  ELSE /\ self' = [s EXCEPT !.from = from, !.buffer = "open", !.held = {}]
       /\ phase' = "rcpt"

(* A slip: the object is used for one mail after another as it is.          *)
EnvFromAsIs ==
  /\ at = "idle" /\ phase \in {"idle", "answered"} /\ mail < MaxMails
  /\ mail' = mail + 1 /\ given' = {} /\ logged' = <<>> /\ answer' = NoAnswer
  /\ fresh' = TRUE
  /\ \E from \in {"", "a"} : sender' = from /\ Begin(self, from)
  /\ UNCHANGED <<configVars, at, ground>>

EnvFrom ==
  /\ at = "idle" /\ phase \in {"idle", "answered"} /\ mail < MaxMails
  /\ mail' = mail + 1 /\ given' = {} /\ logged' = <<>> /\ answer' = NoAnswer
  /\ sender' \in {"", "a"}
  /\ IF self.from # ""
     THEN /\ at' = "envfrom" /\ loader' = NewLoader
          /\ self' = Cleared(self)
          /\ fresh' = FALSE
          /\ UNCHANGED phase
     ELSE /\ Begin(self, sender')
          /\ fresh' = (mail = 0)
          /\ UNCHANGED <<at, loader>>
  /\ UNCHANGED <<file, rewrites, ground>>

EnvFromLoaded ==
  /\ at = "envfrom" /\ loader.at = "done"
  /\ Begin(Initialised(self, loader.conf), sender)
  /\ at' = "idle" /\ fresh' = TRUE /\ ground' = NoGround /\ loader' = IdleLoader
  /\ UNCHANGED <<file, rewrites, sender, mail, given, logged, answer>>

(* The exception leaves the object half initialised; the answer is CONTINUE. *)
EnvFromFails ==
  /\ at = "envfrom" /\ loader.at = "raised"
  /\ self' = [self EXCEPT !.conf = Kept(loader.conf)]
  /\ at' = "idle" /\ phase' = "rcpt" /\ loader' = IdleLoader
  /\ UNCHANGED <<file, rewrites, sender, ghosts>>

---------------------------------------------------------------------------
(* The parts of the mail.  Writing to a buffer that is not open is an       *)
(* exception, which the callback catches.                                   *)
Write(s, what) == IF s.buffer = "open" THEN [s EXCEPT !.held = @ \cup what] ELSE s

EnvRcpt ==
  /\ at = "idle" /\ phase = "rcpt" /\ Cardinality(given) < MaxRcpts
  /\ LET r == <<mail, Cardinality(given) + 1>>
     IN  /\ self' = [self EXCEPT !.rcpts = Append(@, r)]
         /\ given' = given \cup {r}
  /\ UNCHANGED <<configVars, phase, at, sender, mail, fresh, ground, logged, answer>>

Header ==
  /\ at = "idle" /\ phase = "rcpt" /\ given # {}
  /\ self' = [self EXCEPT !.headers = @ \cup {mail}]
  /\ phase' = "header"
  /\ UNCHANGED <<configVars, at, sender, ghosts>>

Eoh ==
  /\ at = "idle" /\ phase \in {"rcpt", "header"} /\ given # {}
  /\ self' = Write(self, self.headers)
  /\ phase' = "body"
  /\ UNCHANGED <<configVars, at, sender, ghosts>>

Body ==
  /\ at = "idle" /\ phase = "body"
  /\ self' = Write(self, {mail})
  /\ UNCHANGED <<configVars, phase, at, sender, ghosts>>

---------------------------------------------------------------------------
(* What is returned for a disposition.                                      *)
Mode(modes, d) == IF d \in DOMAIN modes THEN modes[d] ELSE modes["default"]

(* The callback is over.  After an abort the MTA forgets the mail.          *)
Return(callback, s, basis) ==
  /\ at' = "idle"
  /\ phase' = IF callback = "eom" THEN "answered" ELSE "idle"
  /\ self' = s
  /\ ground' = basis
  /\ answer' = IF callback = "eom"
               THEN [mail |-> mail, code |-> s.rtn, fresh |-> fresh, ground |-> basis]
               ELSE answer

(* Already scanned, or an exception before rtnToMTA is assigned: it is      *)
(* returned as it is.                                                       *)
ReturnAsIs(callback) == Return(callback, self, ground) /\ UNCHANGED logged

(* The rest of eom once the message has been dispositioned, s being the     *)
(* object with rtnToMTA assigned.  Whatever exception comes after that ends *)
(* with its new value, and the mail is marked as scanned in the last line   *)
(* only.                                                                    *)
Basis(s) == [mail |-> mail, held |-> s.held]

(* An exception before the buffers are closed.                              *)
StopsBeforeClosing(callback, s) == Return(callback, s, Basis(s)) /\ UNCHANGED logged

(* The recipients are taken off the list from the last on, and a line is    *)
(* logged for each: those after the first `upTo'.                           *)
LogEachEnvelope(rcpts, upTo) == logged \o Reverse(SubSeq(rcpts, upTo + 1, Len(rcpts)))

(* A slip: the buffers are closed at the very end.                          *)
StopsInLogOpen(callback, s) ==
  \E kept \in 0 .. Len(s.rcpts), lost \in {0, 1} :
    /\ kept + lost <= Len(s.rcpts)
    /\ Return(callback, [s EXCEPT !.rcpts = SubSeq(@, 1, kept)], Basis(s))
    /\ logged' = LogEachEnvelope(s.rcpts, kept + lost)

(* An exception in the log, or before or after it (after it when the MTA    *)
(* does not have the macro {i}: qid is None, and part of the last line).    *)
(* The first `kept' are still on the list, and one may have been taken off  *)
(* without a line.                                                          *)
StopsInLog(callback, s) ==
  \E kept \in 0 .. Len(s.rcpts), lost \in {0, 1} :
    /\ kept + lost <= Len(s.rcpts)
    /\ Return(callback, [s EXCEPT !.buffer = "closed", !.rcpts = SubSeq(@, 1, kept)], Basis(s))
    /\ logged' = LogEachEnvelope(s.rcpts, kept + lost)

Concludes(callback, s) ==
  /\ Return(callback, [s EXCEPT !.buffer = "closed", !.rcpts = <<>>, !.scanned = TRUE], Basis(s))
  /\ logged' = LogEachEnvelope(s.rcpts, 0)

Decided(callback, code) ==
  LET s == [self EXCEPT !.rtn = code]
  IN  StopsBeforeClosing(callback, s) \/ StopsInLog(callback, s) \/ Concludes(callback, s)

(* With too many open files the message is not scanned, but only if there   *)
(* is a mode for that: else naming it in the log is an exception, after     *)
(* which the message is scanned all the same.                               *)
MayRefuseToScan == "overlimit" \in DOMAIN self.conf.modes

(* eom up to where it calls the Dispositioner, or an exception before that. *)
EndOfMessage(callback) ==
  \/ /\ self.listed
     /\ Return(callback, [self EXCEPT !.rtn = "ACCEPT"], ground) /\ UNCHANGED <<loader, logged>>
  \/ ~self.listed /\ ReturnAsIs(callback) /\ UNCHANGED loader
  \/ /\ ~self.listed /\ ~self.scanned /\ self.buffer = "open"
     /\ \/ at' = callback /\ loader' = NewLoader /\ UNCHANGED <<phase, self, ground, logged, answer>>
        \/ MayRefuseToScan /\ Decided(callback, self.conf.modes["overlimit"]) /\ UNCHANGED loader

Eom ==
  /\ at = "idle" /\ phase \in {"body", "answered"}
  /\ EndOfMessage("eom")
  /\ UNCHANGED <<file, rewrites, sender, mail, fresh, given>>

(* abort names the qid first: if it is None that is an exception, and eom   *)
(* is not called.                                                           *)
Abort ==
  /\ at = "idle" /\ phase \in {"rcpt", "header", "body"}
  /\ EndOfMessage("abort") \/ (ReturnAsIs("abort") /\ UNCHANGED loader)
  /\ UNCHANGED <<file, rewrites, sender, mail, fresh, given>>

(* The configuration of the Dispositioner is unreadable, or there is no     *)
(* server in it: closing the client that was never made is an exception.    *)
DispositionFails ==
  /\ at \in {"eom", "abort"}
  /\ loader.at = "raised" \/ (loader.at = "done" /\ loader.conf.servers = <<>>)
  /\ loader' = IdleLoader
  /\ ReturnAsIs(at)
  /\ UNCHANGED <<file, rewrites, sender, mail, fresh, given>>

(* A result brings a disposition; without a result it is "SCAN ERROR".      *)
ScanResults == Dispositions \cup {"scan error"}

(* The message is sent to a server.  A result without a disposition gives a *)
(* list, which is an exception, as are the failures of the client library.  *)
Disposition ==
  /\ at \in {"eom", "abort"}
  /\ loader.at = "done" /\ loader.conf.servers # <<>>
  /\ loader' = IdleLoader
  /\ \/ \E d \in ScanResults : Decided(at, Mode(self.conf.modes, d))
     \/ ReturnAsIs(at)
  /\ UNCHANGED <<file, rewrites, sender, mail, fresh, given>>

---------------------------------------------------------------------------
Callback == EnvFrom \/ EnvRcpt \/ Header \/ Eoh \/ Body \/ Eom \/ Abort
Working == EnvFromLoaded \/ EnvFromFails \/ DispositionFails \/ Disposition
             \/ (LoadAll /\ UNCHANGED sessionVars)

Next == Callback \/ Working \/ (Rewrite /\ UNCHANGED sessionVars)

MilterSpec == MilterInit /\ [][Next]_vars

(* A callback that has been called runs.                                    *)
FairMilterSpec == MilterSpec /\ WF_vars(Working)

---------------------------------------------------------------------------
(* The step in which the message goes to a server.                          *)
Asked ==
  /\ at \in {"eom", "abort"} /\ at' = "idle"
  /\ loader.at = "done" /\ loader.conf.servers # <<>>

MilterTypeOK ==
  /\ ConfigTypeOK
  /\ phase \in {"idle", "rcpt", "header", "body", "answered"}
  /\ at \in {"idle", "envfrom", "eom", "abort"}
  /\ sender \in {"", "a"} /\ self.from \in {"", "a"}
  /\ self.headers \in SUBSET Mails /\ self.held \in SUBSET Mails
  /\ self.rcpts \in Seq(Mails \X (1 .. MaxRcpts))
  /\ self.buffer \in {"none", "open", "closed"}
  /\ self.listed \in BOOLEAN /\ self.rtn \in Codes /\ self.scanned \in BOOLEAN
  /\ mail \in 0 .. MaxMails

(* A mail for which the object was initialised gets its own verdict: what   *)
(* is returned at the end of the message, also when eom is repeated or ends *)
(* with an exception before or after the verdict, rests on a scan of this   *)
(* mail and of nothing else of the connection, or on none, and then it is   *)
(* CONTINUE.                                                                *)
OwnVerdict ==
  answer.fresh =>
    IF self.listed THEN answer.code = "ACCEPT"
    ELSE \/ answer.ground.mail = answer.mail /\ answer.ground.held \subseteq {answer.mail}
         \/ answer.ground = NoGround /\ answer.code = "CONTINUE"

(* A mail that is sent to the scanner, for the first time or again because  *)
(* an exception ended an earlier eom, has not been logged yet for any of    *)
(* its recipients, nor has one been taken off the list.  So the lines of a  *)
(* mail, also those that a failed eom has left, name the verdict of its     *)
(* last scan.                                                               *)
ScannedBeforeLogged == [][Asked => logged = <<>> /\ given \subseteq ToSet(self.rcpts)]_vars

(* Recipients of the mail who are not on the list and have no line.         *)
Lost == given \ (ToSet(logged) \cup ToSet(self.rcpts))

(* The log of a mail for which the object was initialised: no recipient of  *)
(* another mail, none twice, all of them when the mail is marked as         *)
(* scanned.  An exception after the verdict loses at most the recipient     *)
(* whose line was being written, however often eom is called after it.      *)
LoggedOnce ==
  fresh => /\ IsInjective(logged)
           /\ ToSet(logged) \subseteq given
           /\ self.scanned => ToSet(logged) = given
           /\ Cardinality(Lost) <= 1

(* In the mode "shutdown" nothing is sent to the scanner, although the MTA  *)
(* may go on with the mail and call eom: no buffer of an earlier mail is    *)
(* still open.                                                              *)
ShutdownScansNothing == [][Asked => self.conf.mode = "run"]_vars

(* Every callback returns, whatever the configuration file looks like:      *)
(* loadAll gives up.                                                        *)
CallbackReturns == (at # "idle") ~> (at = "idle")

(* "If anything is left over from the last email, re -initialize"           *)
(* (laikamilter.py:202): after envfrom nothing is.                          *)
NothingLeftOver ==
  at = "idle" /\ phase = "rcpt" /\ given = {} =>
    self.headers = {} /\ self.rcpts = <<>> /\ ~self.scanned
===========================================================================
