------------------------- MODULE LaikaMilterProofs -------------------------
(***************************************************************************)
(* The verdicts of laikamilter.py (module LaikaMilter), for every number   *)
(* of mails and recipients, every set of configurations and dispositions,  *)
(* and every way the configuration file is rewritten.                      *)
(***************************************************************************)
EXTENDS LaikaMilter, SeqLemmas

(* The tables of answers that a configuration may have.                     *)
ModeNames == (UNION {DOMAIN c.modes : c \in Confs}) \cup {"default"}
ModeTables == UNION {[D -> Codes] : D \in {E \in SUBSET ModeNames : "default" \in E}}

Modi == {"run", "shutdown"}
Recipients == Mails \X (1 .. MaxRcpts)
Grounds == [mail : 0 .. MaxMails, held : SUBSET Mails]

MilterObject ==
  [conf : [mode : Modi, modes : ModeTables], listed : BOOLEAN,
   from : {"", "a"}, headers : SUBSET Mails, rcpts : Seq(Recipients),
   buffer : {"none", "open", "closed"}, held : SUBSET Mails,
   rtn : Codes, scanned : BOOLEAN]

(* The answers that an eom may give.                                        *)
Answers == [mail : 0 .. MaxMails, code : Codes, fresh : BOOLEAN, ground : Grounds]

(* Of the servers nothing is known but that they are there.                 *)
Loaders(servers) ==
  [at : LoaderSteps \cup {"idle", "again", "done", "raised"},
   attempt : 0 .. MaxLoadAttempts + 1, error : BOOLEAN,
   conf : [mode : Modi, servers : {servers}, modes : ModeTables]]

LoaderOK == loader \in Loaders(loader.conf.servers)

SessionOK ==
  /\ phase \in {"idle", "rcpt", "header", "body", "answered"}
  /\ at \in {"idle", "envfrom", "eom", "abort"}
  /\ sender \in {"", "a"}
  /\ self \in MilterObject
  /\ mail \in 0 .. MaxMails
  /\ fresh \in BOOLEAN
  /\ ground \in Grounds
  /\ given \in SUBSET Recipients
  /\ logged \in Seq(Recipients)
  /\ answer \in Answers

FileOK == file \in Files /\ rewrites \in 0 .. MaxRewrites

(* What the object is between two callbacks, and inside one.                *)
Stage ==
  /\ phase # "idle" \/ at # "idle" => mail >= 1
  /\ at = "envfrom" => /\ self.buffer = "none" /\ self.rcpts = <<>>
                       /\ self.headers = {} /\ self.held = {}
                       /\ given = {} /\ logged = <<>> /\ fresh = FALSE
  /\ at \in {"eom", "abort"} => self.buffer = "open" /\ self.listed = FALSE
  /\ self.buffer = "open" => self.conf.mode = "run"

(* A verdict rests on an earlier mail, or on this one, of which no more is  *)
(* to come then.                                                            *)
Grounded ==
  /\ ground.mail <= mail
  /\ ground.mail = mail /\ mail # 0 => phase \in {"idle", "answered"} /\ at # "envfrom"

(* The recipients of a mail for which the object o was initialised are on   *)
(* its list, or in the log, but for one who may be lost when the buffers    *)
(* are closed, which takes a verdict on this mail.                          *)
Accounted(o, log, basis) ==
  /\ IsInjective(log) /\ IsInjective(o.rcpts)
  /\ ToSet(log) \cap ToSet(o.rcpts) = {}
  /\ ToSet(log) \cup ToSet(o.rcpts) \subseteq given
  /\ \E r : given \subseteq ToSet(log) \cup ToSet(o.rcpts) \cup {r}
  /\ o.scanned => o.buffer = "closed" /\ given = ToSet(log)
  /\ o.buffer = "closed" => basis.mail = mail

(* As long as the buffers are open nothing is logged.                       *)
Unlogged(o, log) == o.buffer # "closed" => log = <<>> /\ given \subseteq ToSet(o.rcpts)

Listing ==
  /\ IsFiniteSet(given)
  /\ given = {mail} \X (1 .. Cardinality(given))
  /\ Unlogged(self, logged)
  /\ fresh => Accounted(self, logged, ground)

(* Such an object holds nothing of any other mail.                          *)
Own ==
  fresh => /\ self.headers \subseteq {mail} /\ self.held \subseteq {mail}
           /\ ground = NoGround \/ (ground.mail = mail /\ ground.held \subseteq {mail})
           /\ ground = NoGround /\ self.listed = FALSE => self.rtn = "CONTINUE"

(* The first mail finds it as it was made.                                  *)
First ==
  mail = 0 => /\ phase = "idle" /\ at = "idle" /\ fresh = TRUE
              /\ self.headers = {} /\ self.held = {} /\ self.rcpts = <<>>
              /\ self.rtn = "CONTINUE" /\ self.buffer = "none" /\ self.scanned = FALSE
              /\ ground = NoGround /\ given = {} /\ logged = <<>>

Session == SessionOK /\ Stage /\ Grounded /\ Listing /\ Own /\ First /\ OwnVerdict

MInv == FileOK /\ LoaderOK /\ Session

---------------------------------------------------------------------------
(* A table of answers merged with the options of a file is one: what is no  *)
(* answer is converted.                                                     *)
LEMMA MergeType ==
  ASSUME NEW new, DOMAIN new \subseteq ModeNames, NEW old \in ModeTables
  PROVE  Merge(new, old) \in ModeTables
<1> DEFINE D == DOMAIN new \cup DOMAIN old
<1>1. DOMAIN old \subseteq ModeNames /\ "default" \in DOMAIN old
      /\ \A d \in DOMAIN old : old[d] \in Codes
  BY DEF ModeTables
<1>2. D \in {E \in SUBSET ModeNames : "default" \in E}
  BY <1>1
<1>3. \A d \in D : (IF d \in DOMAIN new THEN Convert(new[d]) ELSE old[d]) \in Codes
  BY <1>1 DEF Convert, Codes
<1>4. Merge(new, old) \in [D -> Codes]
  BY <1>3 DEF Merge
<1> HIDE DEF D
<1> QED BY <1>2, <1>4 DEF ModeTables

(* The defaults, and what an administrator writes, are well formed.         *)
LEMMA ConfsGood ==
  /\ Defaults.modes \in ModeTables /\ Defaults.mode \in Modi
  /\ Defaults = [mode |-> "run", servers |-> Defaults.servers, modes |-> Defaults.modes]
  /\ \A c \in Confs : c.mode \in Modi /\ DOMAIN c.modes \subseteq ModeNames
<1>0. "default" \in ModeNames
  BY DEF ModeNames
<1>1. {"default"} \in {E \in SUBSET ModeNames : "default" \in E}
  BY <1>0
<1>2. [d \in {"default"} |-> "CONTINUE"] \in [{"default"} -> Codes]
  BY DEF Codes
<1>3. [d \in {"default"} |-> "CONTINUE"] \in ModeTables
  BY <1>1, <1>2 DEF ModeTables
<1>4. Defaults = [mode |-> "run", servers |-> <<>>, modes |-> [d \in {"default"} |-> "CONTINUE"]]
  BY DEF Defaults
<1>5. \A c \in Confs : c.mode \in Modi /\ DOMAIN c.modes \subseteq ModeNames
  BY MilterConfigAssumption DEF Modi, ModeNames
<1> QED BY <1>3, <1>4, <1>5 DEF Modi

(* How a MilterConfig being loaded is put together.                         *)
LEMMA LoaderFields ==
  ASSUME NEW step \in LoaderSteps \cup {"idle", "again", "done", "raised"},
         NEW attempt \in 0 .. MaxLoadAttempts + 1, NEW error \in BOOLEAN,
         NEW mode \in Modi, NEW servers, NEW modes \in ModeTables, NEW l,
         l = [at |-> step, attempt |-> attempt, error |-> error,
              conf |-> [mode |-> mode, servers |-> servers, modes |-> modes]]
  PROVE  l \in Loaders(l.conf.servers)
<1>1. l.conf.servers = servers
  OBVIOUS
<1>2. l \in Loaders(servers)
  BY DEF Loaders
<1> QED BY <1>1, <1>2

(* The one not in use, and the one that starts.                             *)
LEMMA LoaderTypes ==
  /\ IdleLoader \in Loaders(IdleLoader.conf.servers)
  /\ NewLoader \in Loaders(NewLoader.conf.servers)
<1>0. 0 \in 0 .. MaxLoadAttempts + 1 /\ 1 \in 0 .. MaxLoadAttempts + 1
  BY MilterConfigAssumption
<1>1. IdleLoader \in Loaders(IdleLoader.conf.servers)
  BY <1>0, ConfsGood, LoaderFields DEF IdleLoader
<1>2. NewLoader = [at |-> "loadConfig", attempt |-> 1, error |-> FALSE, conf |-> Defaults]
  <2>1. PICK l, i, d : l = NewLoader /\ i = IdleLoader /\ d = Defaults
    OBVIOUS
  <2>2. i = [at |-> "idle", attempt |-> 0, error |-> FALSE, conf |-> d]
    BY <2>1 DEF IdleLoader
  <2>3. l = [i EXCEPT !.at = "loadConfig", !.attempt = 1]
    BY <2>1 DEF NewLoader
  <2>4. l = [at |-> "loadConfig", attempt |-> 1, error |-> FALSE, conf |-> d]
    BY <2>2, <2>3
  <2> QED BY <2>1, <2>4
<1>3. "loadConfig" \in LoaderSteps
  BY DEF LoaderSteps
<1>4. NewLoader \in Loaders(NewLoader.conf.servers)
  BY <1>0, <1>2, <1>3, ConfsGood, LoaderFields
<1> QED BY <1>1, <1>4

---------------------------------------------------------------------------
(* ... and taken apart.                                                     *)
LEMMA LoaderParts ==
  ASSUME LoaderOK
  PROVE  /\ loader = [at |-> loader.at, attempt |-> loader.attempt, error |-> loader.error,
                      conf |-> loader.conf]
         /\ loader.conf = [mode |-> loader.conf.mode, servers |-> loader.conf.servers,
                           modes |-> loader.conf.modes]
         /\ loader.at \in LoaderSteps \cup {"idle", "again", "done", "raised"}
         /\ loader.attempt \in 0 .. MaxLoadAttempts + 1
         /\ loader.error \in BOOLEAN
         /\ loader.conf.mode \in Modi /\ loader.conf.modes \in ModeTables
BY DEF LoaderOK, Loaders

(* One of the four loaders, whatever it finds in the file.                  *)
LEMMA ReadTypes ==
  ASSUME LoaderOK, NEW next \in LoaderSteps \cup {"again", "raised"}, NEW error \in BOOLEAN,
         NEW mode \in Modi, NEW servers, NEW modes \in ModeTables, NEW conf,
         conf = [mode |-> mode, servers |-> servers, modes |-> modes],
         loader' = IF file.cut = "line" THEN [loader EXCEPT !.at = "raised"]
                   ELSE [loader EXCEPT !.at = next, !.conf = conf, !.error = error]
  PROVE  LoaderOK'
<1>1. CASE file.cut = "line"
  <2>1. loader' = [at |-> "raised", attempt |-> loader.attempt, error |-> loader.error,
                   conf |-> [mode |-> loader.conf.mode, servers |-> loader.conf.servers,
                             modes |-> loader.conf.modes]]
    BY <1>1, LoaderParts
  <2>2. "raised" \in LoaderSteps \cup {"idle", "again", "done", "raised"}
    OBVIOUS
  <2>3. PICK l : l = loader'
    OBVIOUS
  <2>4. l \in Loaders(l.conf.servers)
    BY <2>1, <2>2, <2>3, LoaderParts, LoaderFields
  <2>5. loader' \in Loaders(loader'.conf.servers)
    BY <2>3, <2>4
  <2> QED BY <2>5 DEF LoaderOK, Loaders
<1>2. CASE file.cut # "line"
  <2>1. loader' = [at |-> next, attempt |-> loader.attempt, error |-> error,
                   conf |-> [mode |-> mode, servers |-> servers, modes |-> modes]]
    BY <1>2, LoaderParts
  <2>2. loader' \in Loaders(loader'.conf.servers)
    BY <2>1, LoaderParts, LoaderFields, SMTT(30)
  <2> QED BY <2>2 DEF LoaderOK, Loaders
<1> QED BY <1>1, <1>2

(* A step of loadAll.                                                       *)
LEMMA LoadAllType ==
  ASSUME FileOK, LoaderOK, LoadAll
  PROVE  FileOK' /\ LoaderOK'
<1>1. FileOK'
  BY DEF FileOK, Files, LoadAll, LoadConfig, LoadScanServers, LoadDispositionModes,
         LoadHeaderOptions, LoadAgain, Read
<1> SUFFICES LoaderOK'
  BY <1>1
<1>2. file.conf \in Confs /\ file.conf.mode \in Modi /\ DOMAIN file.conf.modes \subseteq ModeNames
  BY ConfsGood DEF FileOK, Files
<1>3. /\ loader.conf.mode \in Modi /\ loader.conf.modes \in ModeTables
      /\ loader.conf = [mode |-> loader.conf.mode, servers |-> loader.conf.servers,
                        modes |-> loader.conf.modes]
  BY LoaderParts
<1> DEFINE Incomplete(section) ==
             loader.error \/ (~Has(section) /\ loader.attempt < MaxLoadAttempts)
<1>4. \A section : Incomplete(section) \in BOOLEAN
  OBVIOUS
<1>5. CASE LoadConfig
  <2> DEFINE next == IF file.cut = "option" THEN "raised" ELSE "loadScanServers"
             m == IF Has(1) THEN file.conf.mode ELSE loader.conf.mode
             c == IF Has(1) THEN [loader.conf EXCEPT !.mode = file.conf.mode] ELSE loader.conf
  <2>1. c = [mode |-> m, servers |-> loader.conf.servers, modes |-> loader.conf.modes]
        /\ m \in Modi
    BY <1>2, <1>3
  <2>2. next \in LoaderSteps \cup {"again", "raised"}
    BY DEF LoaderSteps
  <2>3. loader' = IF file.cut = "line" THEN [loader EXCEPT !.at = "raised"]
                  ELSE [loader EXCEPT !.at = next, !.conf = c, !.error = Incomplete(5)]
    BY <1>5 DEF LoadConfig, Read
  <2> HIDE DEF c, m, next, Incomplete
  <2> QED BY <1>3, <1>4, <2>1, <2>2, <2>3, ReadTypes
<1>6. CASE LoadScanServers
  <2> DEFINE s == IF Has(2) THEN loader.conf.servers \o file.conf.servers ELSE loader.conf.servers
             c == IF Has(2) THEN [loader.conf EXCEPT !.servers = @ \o file.conf.servers] ELSE loader.conf
  <2>1. c = [mode |-> loader.conf.mode, servers |-> s, modes |-> loader.conf.modes]
    BY <1>3
  <2>2. "loadDispositionModes" \in LoaderSteps \cup {"again", "raised"}
    BY DEF LoaderSteps
  <2>3. loader' = IF file.cut = "line" THEN [loader EXCEPT !.at = "raised"]
                  ELSE [loader EXCEPT !.at = "loadDispositionModes", !.conf = c, !.error = Incomplete(2)]
    BY <1>6 DEF LoadScanServers, Read
  <2> HIDE DEF c, s, Incomplete
  <2> QED BY <1>3, <1>4, <2>1, <2>2, <2>3, ReadTypes
<1>7. CASE LoadDispositionModes
  <2> DEFINE m == IF Has(3) THEN Merge(file.conf.modes, loader.conf.modes) ELSE loader.conf.modes
             c == IF Has(3) THEN [loader.conf EXCEPT !.modes = Merge(file.conf.modes, @)] ELSE loader.conf
  <2>1. Merge(file.conf.modes, loader.conf.modes) \in ModeTables
    BY <1>2, <1>3, MergeType
  <2>2. c = [mode |-> loader.conf.mode, servers |-> loader.conf.servers, modes |-> m]
        /\ m \in ModeTables
    BY <2>1, <1>3
  <2>3. "loadHeaderOptions" \in LoaderSteps \cup {"again", "raised"}
    BY DEF LoaderSteps
  <2>4. loader' = IF file.cut = "line" THEN [loader EXCEPT !.at = "raised"]
                  ELSE [loader EXCEPT !.at = "loadHeaderOptions", !.conf = c, !.error = Incomplete(3)]
    BY <1>7 DEF LoadDispositionModes, Read
  <2> HIDE DEF c, m, Incomplete
  <2> QED BY <1>3, <1>4, <2>2, <2>3, <2>4, ReadTypes
<1>8. CASE LoadHeaderOptions
  <2>1. loader' = IF file.cut = "line" THEN [loader EXCEPT !.at = "raised"]
                  ELSE [loader EXCEPT !.at = "again", !.conf = loader.conf, !.error = Incomplete(4)]
    BY <1>8 DEF LoadHeaderOptions, Read
  <2> HIDE DEF Incomplete
  <2> QED BY <1>3, <1>4, <2>1, ReadTypes
<1>9. CASE LoadAgain
  <2>1. \E step \in {"loadConfig", "done"}, attempt \in 0 .. MaxLoadAttempts + 1, error \in BOOLEAN :
          loader' = [loader EXCEPT !.at = step, !.attempt = attempt, !.error = error]
    <3>1. CASE loader.error /\ loader.attempt <= MaxLoadAttempts
      <4>1. loader' = [loader EXCEPT !.at = "loadConfig", !.attempt = loader.attempt + 1, !.error = FALSE]
        BY <1>9, <3>1 DEF LoadAgain
      <4>2. loader.attempt + 1 \in 0 .. MaxLoadAttempts + 1
        BY LoaderParts, <3>1, MilterConfigAssumption
      <4> QED BY <4>1, <4>2
    <3>2. CASE ~(loader.error /\ loader.attempt <= MaxLoadAttempts)
      <4>1. loader' = [loader EXCEPT !.at = "done"]
        BY <1>9, <3>2 DEF LoadAgain
      <4>2. loader' = [loader EXCEPT !.at = "done", !.attempt = loader.attempt, !.error = loader.error]
        BY <4>1, LoaderParts
      <4> QED BY <4>2, LoaderParts
    <3> QED BY <3>1, <3>2
  <2>2. PICK step \in {"loadConfig", "done"}, attempt \in 0 .. MaxLoadAttempts + 1, error \in BOOLEAN :
          loader' = [loader EXCEPT !.at = step, !.attempt = attempt, !.error = error]
    BY <2>1
  <2>3. loader' = [at |-> step, attempt |-> attempt, error |-> error,
                   conf |-> [mode |-> loader.conf.mode, servers |-> loader.conf.servers,
                             modes |-> loader.conf.modes]]
    BY <2>2, LoaderParts
  <2>4. step \in LoaderSteps \cup {"idle", "again", "done", "raised"}
    BY DEF LoaderSteps
  <2>5. loader' \in Loaders(loader'.conf.servers)
    BY <1>3, <2>3, <2>4, LoaderFields
  <2> QED BY <2>5, SMTT(30) DEF LoaderOK, Loaders
<1> QED BY <1>1, <1>5, <1>6, <1>7, <1>8, <1>9 DEF LoadAll

(* Another state of the file.                                               *)
LEMMA RewriteType ==
  ASSUME FileOK, LoaderOK, Rewrite
  PROVE  FileOK' /\ LoaderOK'
BY MilterConfigAssumption DEF FileOK, LoaderOK, Rewrite

---------------------------------------------------------------------------
(* The end of a callback that ends a mail: s is the object, basis what its  *)
(* verdict rests on.                                                        *)
LEMMA Answered ==
  ASSUME Session, NEW callback \in {"eom", "abort"}, NEW s \in MilterObject,
         NEW basis \in Grounds, Return(callback, s, basis), mail >= 1,
         UNCHANGED <<sender, mail, fresh, given>>,
         s.conf = self.conf, s.listed = self.listed,
         s.headers = self.headers, s.held = self.held,
         s.buffer = "open" => self.buffer = "open",
         basis.mail <= mail,
         fresh => basis = NoGround \/ (basis.mail = mail /\ basis.held \subseteq {mail}),
         fresh /\ basis = NoGround /\ s.listed = FALSE => s.rtn = "CONTINUE",
         callback = "eom" /\ s.listed = TRUE => s.rtn = "ACCEPT",
         logged' \in Seq(Recipients), Unlogged(s, logged'),
         fresh => Accounted(s, logged', basis)
  PROVE  Session'
<1>1. /\ at' = "idle" /\ phase' \in {"answered", "idle"} /\ self' = s /\ ground' = basis
      /\ answer' = IF callback = "eom"
                   THEN [mail |-> mail, code |-> s.rtn, fresh |-> fresh, ground |-> basis]
                   ELSE answer
      /\ mail' = mail /\ fresh' = fresh /\ given' = given /\ sender' = sender
  BY DEF Return
<1>2. /\ s.rtn \in Codes /\ fresh \in BOOLEAN /\ mail \in 0 .. MaxMails /\ answer \in Answers
      /\ s.listed \in BOOLEAN /\ self.listed \in BOOLEAN
  BY DEF Session, SessionOK, MilterObject
<1>3. SessionOK'
  <2>1. answer' \in Answers
    BY <1>1, <1>2 DEF Answers
  <2> QED BY <1>1, <1>2, <2>1 DEF Session, SessionOK
<1>4. Stage'
  BY <1>1 DEF Session, Stage
<1>5. Grounded'
  BY <1>1 DEF Session, Grounded
<1>6. Listing'
  <2>1. Unlogged(self, logged)'
    BY <1>1 DEF Unlogged
  <2>2. ASSUME fresh PROVE Accounted(self, logged, ground)'
    <3>1. Accounted(s, logged', basis)
      BY <2>2
    <3> QED BY <1>1, <3>1 DEF Accounted
  <2> QED BY <1>1, <1>2, <2>1, <2>2 DEF Session, Listing
<1>7. Own'
  BY <1>1, <1>2 DEF Session, Own
<1>8. First'
  BY <1>1, <1>2 DEF Session, First
<1>9. OwnVerdict'
  <2>1. CASE callback # "eom"
    BY <1>1, <1>2, <2>1 DEF Session, OwnVerdict
  <2>2. CASE callback = "eom"
    <3>1. /\ answer'.mail = mail /\ answer'.code = s.rtn /\ answer'.fresh = fresh
          /\ answer'.ground = basis /\ self'.listed = s.listed
      BY <1>1, <2>2
    <3>2. CASE fresh /\ s.listed = TRUE
      BY <2>2, <3>1, <3>2, <1>1 DEF OwnVerdict
    <3>3. CASE fresh /\ s.listed = FALSE
      BY <2>2, <3>1, <3>3, <1>1 DEF OwnVerdict
    <3>4. CASE ~fresh
      BY <2>2, <3>1, <3>4, <1>1, <1>2 DEF OwnVerdict
    <3> QED BY <1>2, <3>2, <3>3, <3>4
  <2> QED BY <2>1, <2>2
<1> QED BY <1>3, <1>4, <1>5, <1>6, <1>7, <1>8, <1>9 DEF Session

(* An exception ends the callback with what rtnToMTA is.                    *)
LEMMA ReturnedAsIs ==
  ASSUME Session, NEW callback \in {"eom", "abort"}, ReturnAsIs(callback), mail >= 1,
         UNCHANGED <<sender, mail, fresh, given>>, self.listed = FALSE \/ callback = "abort"
  PROVE  Session'
<1>1. /\ ground \in Grounds /\ logged \in Seq(Recipients) /\ self \in MilterObject
      /\ Return(callback, self, ground) /\ logged' = logged
  BY DEF Session, SessionOK, ReturnAsIs
<1>2. ground.mail <= mail
  BY DEF Session, Grounded
<1>3. fresh => ground = NoGround \/ (ground.mail = mail /\ ground.held \subseteq {mail})
  BY DEF Session, Own
<1>4. fresh /\ ground = NoGround /\ self.listed = FALSE => self.rtn = "CONTINUE"
  BY DEF Session, Own
<1>5. Unlogged(self, logged') /\ (fresh => Accounted(self, logged', ground))
  <2>1. Unlogged(self, logged')
    BY <1>1 DEF Session, Listing, Unlogged
  <2>2. fresh => Accounted(self, logged', ground)
    BY <1>1 DEF Session, Listing, Accounted
  <2> QED BY <2>1, <2>2
<1>6. logged' \in Seq(Recipients)
  BY <1>1
<1> QED BY <1>1, <1>2, <1>3, <1>4, <1>5, <1>6, Answered

---------------------------------------------------------------------------
(* What a verdict on the open buffers of this mail rests on.                *)
LEMMA BasisType ==
  ASSUME Session, NEW s \in MilterObject, s.held = self.held
  PROVE  /\ Basis(s) \in Grounds /\ Basis(s).mail = mail /\ Basis(s).mail <= mail
         /\ fresh => Basis(s).held \subseteq {mail}
         /\ mail >= 1 => Basis(s) # NoGround
<1>1. mail \in 0 .. MaxMails /\ self.held \in SUBSET Mails
  BY DEF Session, SessionOK, MilterObject
<1>2. PICK b : b = Basis(s)
  OBVIOUS
<1>3. b = [mail |-> mail, held |-> self.held]
  BY <1>2 DEF Basis
<1>4. b \in Grounds /\ b.mail = mail /\ b.held = self.held /\ mail <= mail
  BY <1>1, <1>3 DEF Grounds
<1>5. fresh => b.held \subseteq {mail}
  BY <1>4 DEF Session, Own
<1>6. mail >= 1 => b # NoGround
  <2>1. ASSUME mail >= 1, b = NoGround PROVE FALSE
    <3>1. mail = 0
      BY <1>4, <2>1 DEF NoGround
    <3> QED BY <2>1, <3>1
  <2> QED BY <2>1
<1> QED BY <1>2, <1>4, <1>5, <1>6

(* An exception after the verdict, with the buffers open.                   *)
LEMMA StopsBeforeClosingKeeps ==
  ASSUME Session, NEW callback \in {"eom", "abort"}, mail >= 1,
         UNCHANGED <<sender, mail, fresh, given>>, self.listed = FALSE, self.buffer = "open",
         NEW s \in MilterObject, s.conf = self.conf, s.listed = self.listed,
         s.headers = self.headers, s.rcpts = self.rcpts, s.buffer = self.buffer,
         s.held = self.held, s.scanned = self.scanned, StopsBeforeClosing(callback, s)
  PROVE  Session'
<1>1. /\ Return(callback, s, Basis(s)) /\ logged' = logged /\ logged \in Seq(Recipients)
  BY DEF StopsBeforeClosing, Session, SessionOK
<1>2. PICK basis : basis = Basis(s)
  OBVIOUS
<1>3. /\ basis \in Grounds /\ basis.mail = mail /\ basis.mail <= mail /\ basis # NoGround
      /\ fresh => basis.held \subseteq {mail}
  BY <1>2, BasisType
<1>4. Unlogged(s, logged')
  BY <1>1 DEF Session, Listing, Unlogged
<1>5. fresh => Accounted(s, logged', basis)
  BY <1>1, <1>3 DEF Session, Listing, Accounted
<1>6. Return(callback, s, basis) /\ logged' \in Seq(Recipients)
  BY <1>1, <1>2
<1> QED BY <1>3, <1>4, <1>5, <1>6, Answered

(* The buffers are closed; the recipients after the first kept + lost have  *)
(* been logged, and the first `kept' are still on the list.                 *)
LEMMA ClosedKeeps ==
  ASSUME Session, NEW callback \in {"eom", "abort"}, mail >= 1,
         UNCHANGED <<sender, mail, fresh, given>>, self.listed = FALSE, self.buffer = "open",
         NEW kept \in 0 .. Len(self.rcpts), NEW lost \in {0, 1},
         kept + lost <= Len(self.rcpts),
         NEW s \in MilterObject, s.conf = self.conf, s.listed = self.listed,
         s.headers = self.headers, s.rcpts = SubSeq(self.rcpts, 1, kept), s.buffer = "closed",
         s.held = self.held, fresh /\ s.scanned => kept = 0 /\ lost = 0,
         Return(callback, s, Basis(s)), logged' = LogEachEnvelope(self.rcpts, kept + lost)
  PROVE  Session'
<1>1. /\ logged \in Seq(Recipients) /\ self.rcpts \in Seq(Recipients) /\ logged = <<>>
      /\ given \subseteq ToSet(self.rcpts)
  BY DEF Session, SessionOK, MilterObject, Listing, Unlogged
<1>2. PICK basis : basis = Basis(s)
  OBVIOUS
<1>3. /\ basis \in Grounds /\ basis.mail = mail /\ basis.mail <= mail /\ basis # NoGround
      /\ fresh => basis.held \subseteq {mail}
  BY <1>2, BasisType
<1>4. PICK q : q = SubSeq(self.rcpts, kept + lost + 1, Len(self.rcpts))
  OBVIOUS
<1>5. /\ s.rcpts \in Seq(Recipients) /\ q \in Seq(Recipients)
      /\ ToSet(s.rcpts) \cup ToSet(q) \subseteq ToSet(self.rcpts)
      /\ \E r : ToSet(self.rcpts) \subseteq ToSet(s.rcpts) \cup ToSet(q) \cup {r}
      /\ lost = 0 => ToSet(self.rcpts) = ToSet(s.rcpts) \cup ToSet(q)
      /\ IsInjective(self.rcpts) => /\ IsInjective(s.rcpts) /\ IsInjective(q)
                                    /\ ToSet(s.rcpts) \cap ToSet(q) = {}
  <2>1. PICK m \in Int : m = kept + lost + 1
    BY <1>1
  <2>2. m <= Len(self.rcpts) + 1 /\ (lost = 0 => m = kept + 1) /\ (m = kept + 1 \/ m = kept + 2)
    BY <1>1, <2>1
  <2>3. PICK l, p : l = self.rcpts /\ p = s.rcpts
    OBVIOUS
  <2>4. CutInTwo(l, p, q, kept, m)
    BY <1>4, <2>1, <2>2, <2>3 DEF CutInTwo
  <2>5. l \in Seq(Recipients) /\ kept \in 0 .. Len(l)
    BY <1>1, <2>3
  <2>6. /\ p \in Seq(Recipients) /\ q \in Seq(Recipients)
        /\ ToSet(p) \cup ToSet(q) \subseteq ToSet(l)
        /\ ToSet(l) \subseteq ToSet(p) \cup ToSet(q) \cup {l[kept + 1]}
        /\ m = kept + 1 => ToSet(l) = ToSet(p) \cup ToSet(q)
        /\ IsInjective(l) => /\ IsInjective(p) /\ IsInjective(q)
                             /\ ToSet(p) \cap ToSet(q) = {}
    <3>1. p \in Seq(Recipients) /\ q \in Seq(Recipients)
      BY <2>4, <2>5, Cut
    <3>2. ToSet(p) \cup ToSet(q) \subseteq ToSet(l)
      BY <2>4, <2>5, Cut
    <3>3. ToSet(l) \subseteq ToSet(p) \cup ToSet(q) \cup {l[kept + 1]}
      BY <2>4, <2>5, Cut
    <3>4. m = kept + 1 => ToSet(l) = ToSet(p) \cup ToSet(q)
      BY <2>4, <2>5, Cut
    <3>5. IsInjective(l) => /\ IsInjective(p) /\ IsInjective(q)
                            /\ ToSet(p) \cap ToSet(q) = {}
      BY <2>4, <2>5, Cut
    <3> QED BY <3>1, <3>2, <3>3, <3>4, <3>5
  <2> QED BY <2>2, <2>3, <2>6
<1>6. logged' = <<>> \o Reverse(q)
  BY <1>1, <1>4 DEF LogEachEnvelope
<1>7. PICK l : l = Reverse(q)
  OBVIOUS
<1>8. /\ l \in Seq(Recipients) /\ ToSet(l) = ToSet(q)
      /\ IsInjective(self.rcpts) => IsInjective(l)
  BY <1>5, <1>7, ReverseType, ReverseInjective
<1>9. logged' = l
  BY <1>6, <1>7, <1>8
<1>10. Unlogged(s, logged')
  BY DEF Unlogged
<1>11. ASSUME fresh PROVE Accounted(s, logged', basis)
  <2>1. IsInjective(self.rcpts) /\ ToSet(self.rcpts) \subseteq given
    BY <1>11 DEF Session, Listing, Accounted
  <2>2. given = ToSet(self.rcpts)
    BY <1>1, <2>1
  <2>3. /\ IsInjective(logged') /\ IsInjective(s.rcpts)
        /\ ToSet(logged') \cap ToSet(s.rcpts) = {}
        /\ ToSet(logged') \cup ToSet(s.rcpts) \subseteq given
    BY <1>5, <1>8, <1>9, <2>1, <2>2
  <2>4. \E r : given \subseteq ToSet(logged') \cup ToSet(s.rcpts) \cup {r}
    BY <1>5, <1>8, <1>9, <2>2
  <2>5. ASSUME s.scanned PROVE given = ToSet(logged')
    <3>1. s.rcpts = <<>> /\ lost = 0
      BY <1>11, <2>5, SubSeqEmpty
    <3> QED BY <1>5, <1>8, <1>9, <2>2, <2>5, <3>1, EmptyList
  <2> QED BY <1>3, <2>3, <2>4, <2>5 DEF Accounted
<1>12. Return(callback, s, basis) /\ logged' \in Seq(Recipients)
  BY <1>2, <1>8, <1>9
<1> QED BY <1>3, <1>10, <1>11, <1>12, Answered

(* The verdict, whatever becomes of the rest of eom.                        *)
LEMMA DecidedKeeps ==
  ASSUME Session, NEW callback \in {"eom", "abort"}, NEW code \in Codes,
         Decided(callback, code), mail >= 1,
         UNCHANGED <<sender, mail, fresh, given>>, self.listed = FALSE, self.buffer = "open"
  PROVE  Session'
<1>0. self \in MilterObject
  BY DEF Session, SessionOK
<1>1. PICK s : s = [self EXCEPT !.rtn = code]
  OBVIOUS
<1>2. /\ s \in MilterObject /\ s.conf = self.conf /\ s.listed = self.listed
      /\ s.headers = self.headers /\ s.rcpts = self.rcpts /\ s.buffer = self.buffer
      /\ s.held = self.held /\ s.scanned = self.scanned
  BY <1>0, <1>1 DEF MilterObject
<1>3. StopsBeforeClosing(callback, s) \/ StopsInLog(callback, s) \/ Concludes(callback, s)
  BY <1>1 DEF Decided
<1>4. /\ self.rcpts \in Seq(Recipients) /\ Len(self.rcpts) \in Nat /\ fresh \in BOOLEAN
      /\ self.scanned \in BOOLEAN
  <2>1. self.rcpts \in Seq(Recipients) /\ fresh \in BOOLEAN /\ self.scanned \in BOOLEAN
    BY DEF Session, SessionOK, MilterObject
  <2> QED BY <2>1
<1>5. CASE StopsBeforeClosing(callback, s)
  BY <1>2, <1>5, StopsBeforeClosingKeeps
<1>6. CASE StopsInLog(callback, s)
  <2>1. PICK kept \in 0 .. Len(s.rcpts), lost \in {0, 1} :
          /\ kept + lost <= Len(s.rcpts)
          /\ Return(callback, [s EXCEPT !.buffer = "closed", !.rcpts = SubSeq(s.rcpts, 1, kept)],
                    Basis(s))
          /\ logged' = LogEachEnvelope(s.rcpts, kept + lost)
    BY <1>6 DEF StopsInLog
  <2>2. PICK c : c = [s EXCEPT !.buffer = "closed", !.rcpts = SubSeq(self.rcpts, 1, kept)]
    OBVIOUS
  <2>3. SubSeq(self.rcpts, 1, kept) \in Seq(Recipients)
    BY <1>2, <1>4, <2>1, ElementOfSeq, SubSeqProperties
  <2>4. /\ c \in MilterObject /\ c.conf = self.conf /\ c.listed = self.listed
        /\ c.headers = self.headers /\ c.rcpts = SubSeq(self.rcpts, 1, kept)
        /\ c.buffer = "closed" /\ c.held = self.held /\ c.scanned = self.scanned
    BY <1>2, <2>2, <2>3 DEF MilterObject
  <2>5. Basis(c) = Basis(s)
    BY <1>2, <2>4 DEF Basis
  <2>6. fresh => c.scanned = FALSE
    BY <1>4, <2>4 DEF Session, Listing, Accounted
  <2>7. /\ kept \in 0 .. Len(self.rcpts) /\ kept + lost <= Len(self.rcpts)
        /\ Return(callback, c, Basis(c)) /\ logged' = LogEachEnvelope(self.rcpts, kept + lost)
    BY <1>2, <2>1, <2>2, <2>5
  <2> QED BY <2>4, <2>6, <2>7, ClosedKeeps
<1>7. CASE Concludes(callback, s)
  <2>1. PICK c : c = [s EXCEPT !.buffer = "closed", !.rcpts = <<>>, !.scanned = TRUE]
    OBVIOUS
  <2>2. SubSeq(self.rcpts, 1, 0) = <<>> /\ <<>> \in Seq(Recipients)
    BY SubSeqEmpty, EmptyList
  <2>3. /\ c \in MilterObject /\ c.conf = self.conf /\ c.listed = self.listed
        /\ c.headers = self.headers /\ c.rcpts = SubSeq(self.rcpts, 1, 0)
        /\ c.buffer = "closed" /\ c.held = self.held
    BY <1>2, <2>1, <2>2 DEF MilterObject
  <2>4. Basis(c) = Basis(s)
    BY <1>2, <2>3 DEF Basis
  <2>5. /\ Return(callback, c, Basis(c)) /\ logged' = LogEachEnvelope(self.rcpts, 0 + 0)
    BY <1>2, <1>7, <2>1, <2>4 DEF Concludes
  <2>6. 0 \in 0 .. Len(self.rcpts) /\ 0 \in {0, 1} /\ 0 + 0 <= Len(self.rcpts)
    BY <1>4
  <2> QED BY <2>3, <2>5, <2>6, ClosedKeeps
<1> QED BY <1>3, <1>5, <1>6, <1>7

(* The counters as numbers.                                                 *)
LEMMA MailNumber ==
  ASSUME Session
  PROVE  /\ MaxMails \in Nat /\ mail \in Nat /\ mail <= MaxMails
         /\ ground.mail \in Nat /\ ground.mail <= mail
<1>1. mail \in 0 .. MaxMails /\ ground \in Grounds /\ ground.mail <= mail
  BY DEF Session, SessionOK, Grounded
<1>2. ground.mail \in 0 .. MaxMails
  BY <1>1 DEF Grounds
<1> QED BY <1>1, <1>2, MilterAssumption

(* Of a mail that has its verdict nothing more is to come.                  *)
LEMMA DecidedIsOver ==
  ASSUME Session, mail >= 1
  PROVE  ground.mail = mail => phase \in {"idle", "answered"} /\ at # "envfrom"
<1>1. mail # 0
  BY MailNumber
<1> QED BY <1>1 DEF Session, Grounded

(* eom and abort.                                                           *)
LEMMA EndOfMessageKeeps ==
  ASSUME Session, LoaderOK, NEW callback \in {"eom", "abort"}, at = "idle", phase # "idle",
         EndOfMessage(callback), UNCHANGED <<sender, mail, fresh, given>>
  PROVE  Session' /\ LoaderOK'
<1>1. mail >= 1 /\ self \in MilterObject /\ self.conf.modes \in ModeTables
      /\ ground \in Grounds /\ logged \in Seq(Recipients) /\ self.listed \in BOOLEAN
      /\ mail \in 0 .. MaxMails /\ at # "eom"
  BY DEF Session, SessionOK, Stage, MilterObject
<1>2. loader' = loader \/ loader' = NewLoader
  BY DEF EndOfMessage
<1>3. LoaderOK'
  <2>1. NewLoader \in Loaders(NewLoader.conf.servers)
    BY LoaderTypes
  <2> QED BY <1>2, <2>1 DEF LoaderOK, Loaders
<1>4. CASE self.listed /\ Return(callback, [self EXCEPT !.rtn = "ACCEPT"], ground)
           /\ UNCHANGED logged
  <2>1. PICK o : o = [self EXCEPT !.rtn = "ACCEPT"]
    OBVIOUS
  <2>2. /\ o \in MilterObject /\ o.rcpts = self.rcpts /\ o.buffer = self.buffer
        /\ o.held = self.held /\ o.headers = self.headers /\ o.conf = self.conf
        /\ o.listed = self.listed /\ o.rtn = "ACCEPT" /\ o.listed = TRUE
        /\ o.scanned = self.scanned
    BY <1>1, <1>4, <2>1 DEF MilterObject, Codes
  <2>3. Return(callback, o, ground) /\ logged' = logged
    BY <1>4, <2>1
  <2>4. ground.mail <= mail
    BY DEF Session, Grounded
  <2>5. fresh => ground = NoGround \/ (ground.mail = mail /\ ground.held \subseteq {mail})
    BY DEF Session, Own
  <2>6. Unlogged(o, logged')
    BY <2>2, <2>3 DEF Session, Listing, Unlogged
  <2>7. fresh => Accounted(o, logged', ground)
    BY <2>2, <2>3 DEF Session, Listing, Accounted
  <2>8. Session'
    BY <1>1, <2>2, <2>3, <2>4, <2>5, <2>6, <2>7, Answered
  <2> QED BY <1>3, <2>8
<1>5. CASE self.listed = FALSE /\ ReturnAsIs(callback)
  BY <1>1, <1>3, <1>5, ReturnedAsIs
<1>6. CASE self.listed = FALSE /\ self.buffer = "open" /\ at' = callback
           /\ UNCHANGED <<phase, self, ground, logged, answer>>
  <2>1. SessionOK'
    BY <1>6 DEF Session, SessionOK
  <2>2. Stage'
    BY <1>1, <1>6 DEF Session, Stage
  <2>3. Grounded'
    BY <1>1, <1>6 DEF Session, Grounded
  <2>4. Listing'
    <3>1. Unlogged(self, logged)'
      BY <1>6 DEF Session, Listing, Unlogged
    <3>2. fresh' => Accounted(self, logged, ground)'
      BY <1>6 DEF Session, Listing, Accounted
    <3> QED BY <1>6, <3>1, <3>2 DEF Session, Listing
  <2>5. Own' /\ OwnVerdict'
    BY <1>6 DEF Session, Own, OwnVerdict
  <2>6. First'
    BY <1>1 DEF First
  <2> QED BY <1>3, <2>1, <2>2, <2>3, <2>4, <2>5, <2>6 DEF Session
<1>7. CASE self.listed = FALSE /\ self.buffer = "open" /\ MayRefuseToScan
           /\ Decided(callback, self.conf.modes["overlimit"])
  <2>1. self.conf.modes["overlimit"] \in Codes
    BY <1>1, <1>7 DEF MayRefuseToScan, ModeTables
  <2>2. Session'
    BY <1>1, <1>7, <2>1, DecidedKeeps
  <2> QED BY <1>3, <2>2
<1> QED BY <1>1, <1>4, <1>5, <1>6, <1>7 DEF EndOfMessage

(* abort: as at the end of the message, unless its qid is None.             *)
LEMMA AbortKeeps ==
  ASSUME Session, LoaderOK, Abort
  PROVE  Session' /\ LoaderOK'
<1>1. /\ at = "idle" /\ phase # "idle" /\ UNCHANGED <<sender, mail, fresh, given>>
      /\ EndOfMessage("abort") \/ (ReturnAsIs("abort") /\ UNCHANGED loader)
  BY DEF Abort
<1>2. CASE EndOfMessage("abort")
  BY <1>1, <1>2, EndOfMessageKeeps
<1>3. CASE ReturnAsIs("abort") /\ UNCHANGED loader
  <2>1. mail >= 1
    BY <1>1 DEF Session, Stage
  <2>2. Session'
    BY <1>1, <1>3, <2>1, ReturnedAsIs
  <2>3. LoaderOK'
    BY <1>3 DEF LoaderOK, Loaders
  <2> QED BY <2>2, <2>3
<1> QED BY <1>1, <1>2, <1>3

(* No configuration for the Dispositioner, or no server in it.              *)
LEMMA DispositionFailsKeeps ==
  ASSUME Session, LoaderOK, DispositionFails
  PROVE  Session' /\ LoaderOK'
<1>1. /\ at \in {"eom", "abort"} /\ ReturnAsIs(at) /\ loader' = IdleLoader
      /\ UNCHANGED <<sender, mail, fresh, given>>
  BY DEF DispositionFails
<1>2. mail >= 1 /\ self.listed = FALSE
  BY <1>1 DEF Session, SessionOK, Stage
<1>3. LoaderOK'
  BY <1>1, LoaderTypes DEF LoaderOK, Loaders
<1>4. Session'
  BY <1>1, <1>2, ReturnedAsIs
<1> QED BY <1>3, <1>4

(* A result of the scan, or none.                                           *)
LEMMA DispositionKeeps ==
  ASSUME Session, LoaderOK, Disposition
  PROVE  Session' /\ LoaderOK'
<1>1. /\ at \in {"eom", "abort"} /\ loader' = IdleLoader
      /\ UNCHANGED <<sender, mail, fresh, given>>
      /\ \/ \E d \in ScanResults : Decided(at, Mode(self.conf.modes, d))
         \/ ReturnAsIs(at)
  BY DEF Disposition
<1>2. mail >= 1 /\ self.listed = FALSE /\ self.buffer = "open"
      /\ self.conf.modes \in ModeTables
  BY <1>1 DEF Session, SessionOK, Stage, MilterObject
<1>3. LoaderOK'
  BY <1>1, LoaderTypes DEF LoaderOK, Loaders
<1>4. CASE ReturnAsIs(at)
  BY <1>1, <1>2, <1>3, <1>4, ReturnedAsIs
<1>5. ASSUME NEW d \in ScanResults, Decided(at, Mode(self.conf.modes, d))
      PROVE  Session'
  <2>1. PICK code : code = Mode(self.conf.modes, d)
    OBVIOUS
  <2>2. code \in Codes
    BY <1>2, <2>1 DEF Mode, ModeTables
  <2> QED BY <1>1, <1>2, <1>5, <2>1, <2>2, DecidedKeeps
<1> QED BY <1>1, <1>3, <1>4, <1>5

---------------------------------------------------------------------------
(* What the start of a mail leaves of the object s.                         *)
LEMMA Begun ==
  ASSUME NEW s \in MilterObject, NEW from \in {"", "a"}, Begin(s, from),
         s.buffer = "open" => s.conf.mode = "run"
  PROVE  /\ self' \in MilterObject /\ phase' \in {"idle", "rcpt"}
         /\ self'.conf = s.conf /\ self'.listed = s.listed /\ self'.headers = s.headers
         /\ self'.rcpts = s.rcpts /\ self'.rtn = s.rtn
         /\ self'.scanned = s.scanned /\ self'.buffer \in {s.buffer, "open"}
         /\ self'.held = s.held \/ self'.held = {}
         /\ self'.buffer = "open" => self'.conf.mode = "run"
<1>1. CASE s.conf.mode = "shutdown"
  BY <1>1 DEF Begin
<1>2. CASE s.conf.mode # "shutdown"
  <2>1. PICK o : o = [s EXCEPT !.from = from, !.buffer = "open", !.held = {}]
    OBVIOUS
  <2>2. self' = o /\ phase' = "rcpt"
    BY <1>2, <2>1 DEF Begin
  <2>3. /\ o \in MilterObject /\ o.conf = s.conf /\ o.listed = s.listed
        /\ o.headers = s.headers /\ o.rcpts = s.rcpts /\ o.rtn = s.rtn /\ o.held = {}
        /\ o.scanned = s.scanned /\ o.buffer = "open"
    BY <2>1 DEF MilterObject
  <2>4. s.conf.mode = "run"
    BY <1>2 DEF MilterObject, Modi
  <2> QED BY <2>2, <2>3, <2>4
<1> QED BY <1>1, <1>2

(* envfrom: the object is used as it is, or begins to be initialised.       *)
LEMMA EnvFromKeeps ==
  ASSUME Session, LoaderOK, EnvFrom
  PROVE  Session' /\ LoaderOK'
<1>1. /\ at = "idle" /\ phase \in {"idle", "answered"} /\ mail < MaxMails
      /\ mail' = mail + 1 /\ given' = {} /\ logged' = <<>> /\ answer' = NoAnswer
      /\ sender' \in {"", "a"} /\ ground' = ground
  BY DEF EnvFrom
<1>2. /\ self \in MilterObject /\ mail \in 0 .. MaxMails /\ fresh \in BOOLEAN
      /\ ground \in Grounds /\ logged \in Seq(Recipients) /\ self.rcpts \in Seq(Recipients)
      /\ self.from \in {"", "a"} /\ phase \in {"idle", "rcpt", "header", "body", "answered"}
  BY DEF Session, SessionOK, MilterObject
<1>0. mail < MaxMails
  BY <1>1
<1>3. mail + 1 \in 0 .. MaxMails /\ mail + 1 >= 1 /\ mail + 1 # 0
  BY <1>0, MailNumber
<1>4. <<>> \in Seq(Recipients) /\ IsInjective(<<>>) /\ ToSet(<<>>) = {}
  BY EmptyList
<1>5. NoAnswer \in Answers /\ NoAnswer.fresh = FALSE
  BY MilterAssumption DEF NoAnswer, NoGround, Answers, Grounds, Codes
<1>6. ground.mail <= mail + 1 /\ ground.mail # mail + 1
  BY MailNumber
<1>7. Grounded'
  BY <1>1, <1>6 DEF Grounded
<1>8. OwnVerdict'
  BY <1>1, <1>5 DEF OwnVerdict
<1>9. First'
  BY <1>1, <1>3 DEF First
<1>10. IsFiniteSet({}) /\ Cardinality({}) = 0 /\ {} = {mail + 1} \X (1 .. 0)
  BY FS_EmptySet
<1>11. CASE self.from # ""
  <2>1. /\ at' = "envfrom" /\ loader' = NewLoader /\ self' = Cleared(self) /\ fresh' = FALSE
        /\ phase' = phase
    BY <1>11 DEF EnvFrom
  <2>2. PICK o : o = Cleared(self)
    OBVIOUS
  <2>3. Kept(Defaults) \in [mode : Modi, modes : ModeTables]
    BY ConfsGood DEF Kept
  <2>4. /\ o \in MilterObject /\ o.buffer = "none" /\ o.rcpts = <<>> /\ o.headers = {}
        /\ o.held = {}
    BY <1>2, <1>4, <2>2, <2>3 DEF Cleared, MilterObject
  <2>5. SessionOK'
    BY <1>1, <1>2, <1>3, <1>4, <1>5, <2>1, <2>2, <2>4 DEF SessionOK
  <2>6. Stage'
    BY <1>1, <1>3, <2>1, <2>2, <2>4 DEF Stage
  <2>7. Listing'
    BY <1>1, <1>10, <2>1 DEF Listing, Unlogged
  <2>8. Own'
    BY <2>1 DEF Own
  <2>9. LoaderOK'
    BY <2>1, LoaderTypes DEF LoaderOK, Loaders
  <2> QED BY <1>7, <1>8, <1>9, <2>5, <2>6, <2>7, <2>8, <2>9 DEF Session
<1>12. CASE self.from = ""
  <2>1. at' = at /\ loader' = loader /\ fresh' = (mail = 0) /\ Begin(self, sender')
    BY <1>12 DEF EnvFrom
  <2>2. PICK from \in {"", "a"} : from = sender' /\ Begin(self, from)
    BY <1>1, <2>1
  <2>3. self.buffer = "open" => self.conf.mode = "run"
    BY DEF Session, Stage
  <2>4. /\ self' \in MilterObject /\ phase' \in {"idle", "rcpt"}
        /\ self'.conf = self.conf /\ self'.listed = self.listed /\ self'.headers = self.headers
        /\ self'.rcpts = self.rcpts /\ self'.rtn = self.rtn
        /\ self'.scanned = self.scanned /\ self'.buffer \in {self.buffer, "open"}
        /\ self'.held = self.held \/ self'.held = {}
        /\ self'.buffer = "open" => self'.conf.mode = "run"
    BY <1>2, <2>2, <2>3, Begun
  <2>5. SessionOK'
    BY <1>1, <1>2, <1>3, <1>4, <1>5, <2>1, <2>4 DEF SessionOK
  <2>6. Stage'
    BY <1>1, <1>3, <2>1, <2>4 DEF Stage
  <2>7. mail = 0 => /\ self.headers = {} /\ self.held = {} /\ self.rcpts = <<>>
                    /\ self.rtn = "CONTINUE" /\ ground = NoGround
                    /\ self.buffer = "none" /\ self.scanned = FALSE
    BY DEF Session, First
  <2>8. IsFiniteSet(given') /\ given' = {mail'} \X (1 .. Cardinality(given'))
    BY <1>1, <1>10
  <2>9. Listing'
    <3>1. fresh' => self'.rcpts = <<>> /\ self'.scanned = FALSE /\ self'.buffer # "closed"
      BY <2>1, <2>4, <2>7
    <3>2. Unlogged(self, logged)'
      BY <1>1 DEF Unlogged
    <3>3. fresh' => Accounted(self, logged, ground)'
      BY <1>1, <1>4, <3>1 DEF Accounted
    <3> QED BY <2>8, <3>2, <3>3 DEF Listing
  <2>10. Own'
    BY <1>1, <2>1, <2>4, <2>7 DEF Own
  <2>11. LoaderOK'
    BY <2>1 DEF LoaderOK, Loaders
  <2> QED BY <1>7, <1>8, <1>9, <2>5, <2>6, <2>9, <2>10, <2>11 DEF Session
<1> QED BY <1>11, <1>12

(* It is initialised, and belongs to this mail.                             *)
LEMMA EnvFromLoadedKeeps ==
  ASSUME Session, LoaderOK, EnvFromLoaded
  PROVE  Session' /\ LoaderOK'
<1> DEFINE s == Initialised(self, loader.conf)
<1>1. /\ at = "envfrom" /\ Begin(s, sender) /\ at' = "idle" /\ fresh' = TRUE
      /\ ground' = NoGround /\ loader' = IdleLoader
      /\ sender' = sender /\ mail' = mail /\ given' = given /\ logged' = logged
      /\ answer' = answer
  BY DEF EnvFromLoaded
<1>2. /\ self \in MilterObject /\ mail \in 0 .. MaxMails /\ mail >= 1 /\ sender \in {"", "a"}
      /\ given \in SUBSET Recipients /\ logged \in Seq(Recipients) /\ answer \in Answers
  BY <1>1 DEF Session, SessionOK, Stage
<1>3. /\ self.buffer = "none" /\ self.rcpts = <<>> /\ self.headers = {} /\ self.held = {}
      /\ given = {} /\ logged = <<>>
  BY <1>1 DEF Session, Stage
<1>4. Kept(loader.conf) \in [mode : Modi, modes : ModeTables]
  BY LoaderParts DEF Kept
<1>5. /\ s \in MilterObject /\ s.buffer = "none" /\ s.rcpts = <<>> /\ s.headers = {}
      /\ s.held = {} /\ s.rtn = "CONTINUE" /\ s.listed = self.listed /\ s.scanned = FALSE
  BY <1>2, <1>3, <1>4 DEF Initialised, MilterObject, Codes
<1> HIDE DEF s
<1>6. /\ self' \in MilterObject /\ phase' \in {"idle", "rcpt"}
      /\ self'.listed = self.listed /\ self'.headers = {}
      /\ self'.rcpts = <<>> /\ self'.rtn = "CONTINUE" /\ self'.held = {}
      /\ self'.scanned = FALSE /\ self'.buffer # "closed"
      /\ self'.buffer = "open" => self'.conf.mode = "run"
  BY <1>1, <1>2, <1>5, Begun
<1>7. NoGround \in Grounds /\ NoGround.mail = 0
  BY MilterAssumption DEF NoGround, Grounds
<1>0. mail >= 1
  BY <1>2
<1>8. mail # 0 /\ 0 <= mail
  BY <1>0, MailNumber
<1>9. SessionOK'
  BY <1>1, <1>2, <1>6, <1>7 DEF SessionOK
<1>10. Stage'
  BY <1>1, <1>2, <1>6 DEF Stage
<1>11. Grounded'
  BY <1>1, <1>7, <1>8 DEF Grounded
<1>12. IsInjective(<<>>) /\ ToSet(<<>>) = {}
  BY EmptyList
<1>13. Listing'
  <2>1. Accounted(self, logged, ground)'
    BY <1>1, <1>3, <1>6, <1>12 DEF Accounted
  <2>2. Unlogged(self, logged)'
    BY <1>1, <1>3 DEF Unlogged
  <2> QED BY <1>1, <2>1, <2>2 DEF Session, Listing
<1>14. Own'
  BY <1>1, <1>6 DEF Own
<1>15. First'
  BY <1>1, <1>8 DEF First
<1>16. OwnVerdict'
  BY <1>1, <1>6 DEF Session, OwnVerdict
<1>17. LoaderOK'
  BY <1>1, LoaderTypes DEF LoaderOK, Loaders
<1> QED BY <1>9, <1>10, <1>11, <1>13, <1>14, <1>15, <1>16, <1>17 DEF Session

(* It is left half initialised.                                             *)
LEMMA EnvFromFailsKeeps ==
  ASSUME Session, LoaderOK, EnvFromFails
  PROVE  Session' /\ LoaderOK'
<1>1. /\ at = "envfrom" /\ self' = [self EXCEPT !.conf = Kept(loader.conf)]
      /\ at' = "idle" /\ phase' = "rcpt" /\ loader' = IdleLoader
      /\ sender' = sender /\ mail' = mail /\ fresh' = fresh /\ ground' = ground
      /\ given' = given /\ logged' = logged /\ answer' = answer
  BY DEF EnvFromFails, ghosts
<1>2. /\ self \in MilterObject /\ mail >= 1 /\ fresh = FALSE /\ self.buffer = "none"
      /\ self.listed \in BOOLEAN
  BY <1>1 DEF Session, Stage, SessionOK, MilterObject
<1>0. mail # 0 /\ ground.mail # mail
  BY <1>1, <1>2, DecidedIsOver, MailNumber
<1>3. Kept(loader.conf) \in [mode : Modi, modes : ModeTables]
  BY LoaderParts DEF Kept
<1>4. self' \in MilterObject /\ self'.buffer = "none" /\ self'.listed = self.listed
      /\ self'.rcpts = self.rcpts
  BY <1>1, <1>2, <1>3 DEF MilterObject
<1>5. SessionOK'
  BY <1>1, <1>4 DEF Session, SessionOK
<1>6. Stage'
  BY <1>1, <1>2, <1>4 DEF Stage
<1>7. Grounded'
  BY <1>1, <1>0 DEF Session, Grounded
<1>8. Listing' /\ Own' /\ First'
  BY <1>1, <1>2, <1>0, <1>4 DEF Session, Listing, Unlogged, Own, First
<1>9. OwnVerdict'
  BY <1>1, <1>4 DEF Session, OwnVerdict
<1>10. LoaderOK'
  BY <1>1, LoaderTypes DEF LoaderOK, Loaders
<1> QED BY <1>5, <1>6, <1>7, <1>8, <1>9, <1>10 DEF Session

---------------------------------------------------------------------------
(* A part of the mail arrives: s is the object, which holds of this mail    *)
(* what it held before or more.                                             *)
LEMMA PartArrives ==
  ASSUME Session, at = "idle", phase \in {"rcpt", "header", "body"},
         NEW s \in MilterObject, self' = s, phase' \in {"rcpt", "header", "body"},
         UNCHANGED <<at, sender, mail, fresh, ground, logged, answer>>,
         s.conf = self.conf, s.listed = self.listed, s.buffer = self.buffer, s.rtn = self.rtn,
         self.headers \subseteq {mail} => s.headers \subseteq {mail},
         self.headers \subseteq {mail} /\ self.held \subseteq {mail} => s.held \subseteq {mail},
         given' \in SUBSET Recipients, Listing'
  PROVE  Session'
<1>1. mail >= 1 /\ mail # 0 /\ ground.mail # mail
  <2>1. mail >= 1
    BY DEF Session, Stage
  <2>2. mail # 0
    BY <2>1, MailNumber
  <2> QED BY <2>1, <2>2 DEF Session, Grounded
<1>2. SessionOK'
  BY DEF Session, SessionOK
<1>3. Stage'
  BY <1>1 DEF Session, Stage
<1>4. Grounded'
  BY <1>1 DEF Session, Grounded
<1>5. Own'
  BY DEF Session, Own
<1>6. First'
  BY <1>1 DEF First
<1>7. OwnVerdict'
  BY DEF Session, OwnVerdict
<1> QED BY <1>2, <1>3, <1>4, <1>5, <1>6, <1>7 DEF Session

(* Nothing happens to the recipients.                                       *)
LEMMA ListStands ==
  ASSUME Session, UNCHANGED <<mail, fresh, ground, given, logged>>, self'.rcpts = self.rcpts,
         self'.buffer = self.buffer, self'.scanned = self.scanned
  PROVE  Listing'
<1>1. Unlogged(self, logged)'
  BY DEF Session, Listing, Unlogged
<1>2. fresh' => Accounted(self, logged, ground)'
  BY DEF Session, Listing, Accounted
<1> QED BY <1>1, <1>2 DEF Session, Listing

(* A recipient.                                                             *)
LEMMA EnvRcptKeeps ==
  ASSUME Session, EnvRcpt
  PROVE  Session'
<1> DEFINE r == <<mail, Cardinality(given) + 1>>
           s == [self EXCEPT !.rcpts = Append(self.rcpts, r)]
<1>1. /\ at = "idle" /\ phase = "rcpt" /\ self' = s /\ given' = given \cup {r}
      /\ UNCHANGED <<phase, at, sender, mail, fresh, ground, logged, answer>>
  BY DEF EnvRcpt
<1>2. Cardinality(given) < MaxRcpts
  BY DEF EnvRcpt
<1>3. IsFiniteSet(given) /\ given = {mail} \X (1 .. Cardinality(given))
  BY DEF Session, Listing
<1>4. Cardinality(given) \in Nat
  BY <1>3, FS_CardinalityType
<1>5. mail \in Mails
  <2>1. mail >= 1
    BY <1>1 DEF Session, Stage
  <2> QED BY <2>1, MailNumber DEF Mails
<1>6. Cardinality(given) + 1 \in 1 .. MaxRcpts
  BY <1>2, <1>4, MilterAssumption
<1>7. r \in Recipients
  BY <1>5, <1>6 DEF Recipients
<1>8. r \notin given
  <2>1. Cardinality(given) + 1 \notin 1 .. Cardinality(given)
    BY <1>4
  <2> QED BY <1>3, <2>1
<1>9. IsFiniteSet(given \cup {r}) /\ Cardinality(given \cup {r}) = Cardinality(given) + 1
  BY <1>3, <1>8, FS_AddElement
<1>10. given \cup {r} = {mail} \X (1 .. Cardinality(given) + 1)
  <2>1. PICK n \in Nat : n = Cardinality(given)
    BY <1>4
  <2>2. 1 .. n + 1 = (1 .. n) \cup {n + 1}
    BY <2>1
  <2>3. given = {mail} \X (1 .. n) /\ r = <<mail, n + 1>>
    BY <1>3, <2>1
  <2> HIDE DEF r
  <2>4. given \cup {r} = {mail} \X (1 .. n + 1)
    BY <2>2, <2>3
  <2> QED BY <2>1, <2>4
<1>11. self \in MilterObject /\ self.rcpts \in Seq(Recipients) /\ given \in SUBSET Recipients
       /\ logged \in Seq(Recipients)
  BY DEF Session, SessionOK, MilterObject
<1> HIDE DEF r
<1>12. Append(self.rcpts, r) \in Seq(Recipients)
       /\ ToSet(Append(self.rcpts, r)) = ToSet(self.rcpts) \cup {r}
  BY <1>7, <1>11, AppendAny
<1>13. /\ s \in MilterObject /\ s.rcpts = Append(self.rcpts, r) /\ s.conf = self.conf
       /\ s.listed = self.listed /\ s.buffer = self.buffer /\ s.rtn = self.rtn
       /\ s.scanned = self.scanned
       /\ s.headers = self.headers /\ s.held = self.held
  BY <1>11, <1>12 DEF MilterObject
<1> HIDE DEF s
<1>14. ASSUME fresh PROVE Accounted(self, logged, ground)'
  <2>1. /\ IsInjective(logged) /\ IsInjective(self.rcpts)
        /\ ToSet(logged) \cap ToSet(self.rcpts) = {}
        /\ ToSet(logged) \cup ToSet(self.rcpts) \subseteq given
    BY <1>14 DEF Session, Listing, Accounted
  <2>2. r \notin ToSet(logged) /\ r \notin ToSet(self.rcpts)
    BY <1>8, <2>1
  <2>3. ~Contains(self.rcpts, r)
    BY <1>11, <2>2 DEF Contains, ToSet
  <2>4. IsInjective(Append(self.rcpts, r))
    BY <1>7, <1>11, <2>1, <2>3, AppendFresh
  <2>5. s.buffer # "closed" /\ s.scanned # TRUE
    <3>1. mail >= 1
      BY <1>1 DEF Session, Stage
    <3>2. ground.mail # mail
      BY <1>1, <3>1, DecidedIsOver
    <3> QED BY <1>13, <1>14, <3>2 DEF Session, Listing, Accounted
  <2>6. given \subseteq ToSet(self.rcpts)
    BY <1>13, <2>5 DEF Session, Listing, Unlogged
  <2>7. /\ ToSet(logged) \cap ToSet(s.rcpts) = {}
        /\ ToSet(logged) \cup ToSet(s.rcpts) \subseteq given \cup {r}
        /\ given \cup {r} \subseteq ToSet(logged) \cup ToSet(s.rcpts) \cup {r}
    BY <1>12, <1>13, <2>1, <2>2, <2>6
  <2> QED BY <1>1, <1>13, <2>1, <2>4, <2>5, <2>7 DEF Accounted
<1>17. Unlogged(self, logged)'
  BY <1>1, <1>12, <1>13 DEF Session, Listing, Unlogged
<1>15. Listing'
  BY <1>1, <1>9, <1>10, <1>14, <1>17 DEF Listing
<1>16. given' \in SUBSET Recipients
  BY <1>1, <1>7, <1>11
<1> QED BY <1>1, <1>13, <1>15, <1>16, PartArrives

(* A header.                                                                *)
LEMMA HeaderKeeps ==
  ASSUME Session, Header
  PROVE  Session'
<1> DEFINE s == [self EXCEPT !.headers = self.headers \cup {mail}]
<1>1. /\ at = "idle" /\ phase = "rcpt" /\ self' = s /\ phase' = "header"
      /\ UNCHANGED <<at, sender, mail, fresh, ground, given, logged, answer>>
  BY DEF Header, ghosts
<1>2. mail \in Mails
  <2>1. mail >= 1
    BY <1>1 DEF Session, Stage
  <2> QED BY <2>1, MailNumber DEF Mails
<1>3. self \in MilterObject /\ given \in SUBSET Recipients
  BY DEF Session, SessionOK
<1>4. /\ s \in MilterObject /\ s.rcpts = self.rcpts /\ s.conf = self.conf
      /\ s.listed = self.listed /\ s.buffer = self.buffer /\ s.rtn = self.rtn
      /\ s.scanned = self.scanned
      /\ s.headers = self.headers \cup {mail} /\ s.held = self.held
  BY <1>2, <1>3 DEF MilterObject
<1> HIDE DEF s
<1>5. Listing'
  BY <1>1, <1>4, ListStands
<1> QED BY <1>1, <1>3, <1>4, <1>5, PartArrives

(* What is written to the buffer is all that is added to it.                *)
LEMMA WriteType ==
  ASSUME Session, NEW what \in SUBSET Mails
  PROVE  LET s == Write(self, what)
         IN  /\ s \in MilterObject /\ s.rcpts = self.rcpts /\ s.conf = self.conf
             /\ s.listed = self.listed /\ s.buffer = self.buffer /\ s.rtn = self.rtn
             /\ s.scanned = self.scanned
             /\ s.headers = self.headers /\ s.held \subseteq self.held \cup what
<1>1. self \in MilterObject
  BY DEF Session, SessionOK
<1> QED BY <1>1 DEF Write, MilterObject

(* The end of the headers: they are written to the buffer.                  *)
LEMMA EohKeeps ==
  ASSUME Session, Eoh
  PROVE  Session'
<1>1. /\ at = "idle" /\ phase \in {"rcpt", "header"} /\ self' = Write(self, self.headers)
      /\ phase' = "body"
      /\ UNCHANGED <<at, sender, mail, fresh, ground, given, logged, answer>>
  BY DEF Eoh, ghosts
<1>2. self.headers \in SUBSET Mails /\ given \in SUBSET Recipients
  BY DEF Session, SessionOK, MilterObject
<1>3. PICK s : s = Write(self, self.headers)
  OBVIOUS
<1>4. /\ s \in MilterObject /\ s.rcpts = self.rcpts /\ s.conf = self.conf
      /\ s.listed = self.listed /\ s.buffer = self.buffer /\ s.rtn = self.rtn
      /\ s.scanned = self.scanned
      /\ s.headers = self.headers /\ s.held \subseteq self.held \cup self.headers
  BY <1>2, <1>3, WriteType
<1>5. Listing'
  BY <1>1, <1>3, <1>4, ListStands
<1> QED BY <1>1, <1>2, <1>3, <1>4, <1>5, PartArrives

(* A part of the body.                                                      *)
LEMMA BodyKeeps ==
  ASSUME Session, Body
  PROVE  Session'
<1>1. /\ at = "idle" /\ phase = "body" /\ self' = Write(self, {mail}) /\ phase' = phase
      /\ UNCHANGED <<at, sender, mail, fresh, ground, given, logged, answer>>
  BY DEF Body, ghosts
<1>2. {mail} \in SUBSET Mails /\ given \in SUBSET Recipients
  <2>1. mail >= 1
    BY <1>1 DEF Session, Stage
  <2>2. mail \in Mails
    BY <2>1, MailNumber DEF Mails
  <2> QED BY <2>2 DEF Session, SessionOK
<1>3. PICK s : s = Write(self, {mail})
  OBVIOUS
<1>4. /\ s \in MilterObject /\ s.rcpts = self.rcpts /\ s.conf = self.conf
      /\ s.listed = self.listed /\ s.buffer = self.buffer /\ s.rtn = self.rtn
      /\ s.scanned = self.scanned
      /\ s.headers = self.headers /\ s.held \subseteq self.held \cup {mail}
  BY <1>2, <1>3, WriteType
<1>5. Listing'
  BY <1>1, <1>3, <1>4, ListStands
<1> QED BY <1>1, <1>2, <1>3, <1>4, <1>5, PartArrives

---------------------------------------------------------------------------
(* A new connection.                                                        *)
LEMMA MilterStarts == MilterInit => MInv
<1> SUFFICES ASSUME MilterInit PROVE MInv
  OBVIOUS
<1>1. FileOK
  <2>1. 0 \in 0 .. MaxRewrites
    BY MilterConfigAssumption
  <2> QED BY <2>1 DEF MilterInit, ConfigInit, FileOK
<1>2. LoaderOK
  BY LoaderTypes DEF MilterInit, ConfigInit, LoaderOK
<1>3. PICK c \in Confs, listed \in BOOLEAN :
        self = [Blank EXCEPT !.listed = listed,
                  !.conf = [mode |-> c.mode, modes |-> Merge(c.modes, Defaults.modes)]]
  BY DEF MilterInit
<1>4. PICK modes \in ModeTables : modes = Merge(c.modes, Defaults.modes)
  BY ConfsGood, MergeType
<1>5. <<>> \in Seq(Recipients) /\ IsInjective(<<>>) /\ ToSet(<<>>) = {}
  BY EmptyList
<1>6. self = [conf |-> [mode |-> c.mode, modes |-> modes], listed |-> listed,
              from |-> "", headers |-> {}, rcpts |-> <<>>, buffer |-> "none", held |-> {},
              rtn |-> "CONTINUE", scanned |-> FALSE]
  BY <1>3, <1>4 DEF Blank
<1>7. c.mode \in Modi
  BY ConfsGood
<1>8. /\ self \in MilterObject /\ self.headers = {} /\ self.rcpts = <<>> /\ self.held = {}
      /\ self.buffer = "none" /\ self.rtn = "CONTINUE" /\ self.scanned = FALSE
  BY <1>5, <1>6, <1>7 DEF MilterObject, Codes
<1>9. /\ phase = "idle" /\ at = "idle" /\ sender = "" /\ mail = 0 /\ fresh = TRUE
      /\ ground = NoGround /\ given = {} /\ logged = <<>> /\ answer = NoAnswer
  BY DEF MilterInit
<1>10. /\ NoGround \in Grounds /\ NoGround.mail = 0 /\ NoGround.held = {} /\ 0 \in 0 .. MaxMails
       /\ NoAnswer \in Answers /\ NoAnswer.fresh = FALSE
  BY MilterAssumption DEF NoAnswer, NoGround, Answers, Grounds, Codes
<1>11. SessionOK
  BY <1>5, <1>8, <1>9, <1>10 DEF SessionOK
<1>12. IsFiniteSet({}) /\ Cardinality({}) = 0 /\ {} = {0} \X (1 .. 0)
  BY FS_EmptySet
<1>13. Stage /\ Grounded /\ Own /\ First
  <2>1. Stage
    BY <1>8, <1>9 DEF Stage
  <2>0. ground.mail = 0 /\ mail = 0
    BY <1>9, <1>10
  <2>2. ground.mail <= mail
    BY <2>0
  <2>3. Grounded
    BY <2>0, <2>2 DEF Grounded
  <2>4. Own /\ First
    BY <1>8, <1>9, <1>10 DEF Own, First
  <2> QED BY <2>1, <2>3, <2>4
<1>14. Listing
  BY <1>5, <1>8, <1>9, <1>12 DEF Listing, Unlogged, Accounted
<1>15. OwnVerdict
  BY <1>9, <1>10 DEF OwnVerdict
<1> QED BY <1>1, <1>2, <1>11, <1>13, <1>14, <1>15 DEF MInv, Session

(* Steps of the loader and of the administrator leave the object alone.     *)
LEMMA SessionStands ==
  ASSUME Session, UNCHANGED sessionVars
  PROVE  Session'
<1>1. UNCHANGED <<phase, at, sender, self, mail, fresh, ground, given, logged, answer>>
  BY DEF sessionVars
<1>2. SessionOK' /\ Stage' /\ Grounded' /\ Listing'
  BY <1>1 DEF Session, SessionOK, Stage, Grounded, Listing, Unlogged, Accounted
<1>3. Own' /\ First' /\ OwnVerdict'
  BY <1>1 DEF Session, Own, First, OwnVerdict
<1> QED BY <1>2, <1>3 DEF Session

(* The invariant is kept by every step.                                     *)
LEMMA MilterKeeps == MInv /\ [Next]_vars => MInv'
<1> SUFFICES ASSUME MInv, [Next]_vars PROVE MInv'
  OBVIOUS
<1> USE DEF MInv
<1>0. ASSUME UNCHANGED <<file, rewrites>> PROVE FileOK'
  BY <1>0 DEF FileOK, Files
<1>1. ASSUME UNCHANGED loader PROVE LoaderOK'
  BY <1>1 DEF LoaderOK, Loaders
<1>2. CASE EnvFrom
  BY <1>0, <1>2, EnvFromKeeps DEF EnvFrom
<1>3. CASE EnvRcpt
  BY <1>0, <1>1, <1>3, EnvRcptKeeps DEF EnvRcpt, configVars
<1>4. CASE Header
  BY <1>0, <1>1, <1>4, HeaderKeeps DEF Header, configVars
<1>5. CASE Eoh
  BY <1>0, <1>1, <1>5, EohKeeps DEF Eoh, configVars
<1>6. CASE Body
  BY <1>0, <1>1, <1>6, BodyKeeps DEF Body, configVars
<1>7. CASE Eom
  <2>1. /\ at = "idle" /\ phase # "idle" /\ EndOfMessage("eom")
        /\ UNCHANGED <<file, rewrites, sender, mail, fresh, given>>
    BY <1>7 DEF Eom
  <2> QED BY <1>0, <2>1, EndOfMessageKeeps
<1>8. CASE Abort
  BY <1>0, <1>8, AbortKeeps DEF Abort
<1>9. CASE EnvFromLoaded
  BY <1>0, <1>9, EnvFromLoadedKeeps DEF EnvFromLoaded
<1>10. CASE EnvFromFails
  BY <1>0, <1>10, EnvFromFailsKeeps DEF EnvFromFails
<1>11. CASE DispositionFails
  BY <1>0, <1>11, DispositionFailsKeeps DEF DispositionFails
<1>12. CASE Disposition
  BY <1>0, <1>12, DispositionKeeps DEF Disposition
<1>13. CASE LoadAll /\ UNCHANGED sessionVars
  BY <1>13, LoadAllType, SessionStands
<1>14. CASE Rewrite /\ UNCHANGED sessionVars
  BY <1>14, RewriteType, SessionStands
<1>15. CASE UNCHANGED vars
  BY <1>0, <1>1, <1>15, SessionStands DEF vars, configVars
<1> QED BY <1>2, <1>3, <1>4, <1>5, <1>6, <1>7, <1>8, <1>9, <1>10, <1>11, <1>12, <1>13,
           <1>14, <1>15 DEF Next, Callback, Working

(* MInv holds of every connection.                                          *)
THEOREM MilterInvariant == MilterSpec => []MInv
BY MilterStarts, MilterKeeps, PTL DEF MilterSpec

(* The object and the configuration being loaded have the types of the      *)
(* program, whatever the file looks like while it is read.                  *)
THEOREM MilterTypeCorrect == MilterSpec => []MilterTypeOK
<1>1. MInv => MilterTypeOK
  <2> SUFFICES ASSUME MInv PROVE MilterTypeOK
    OBVIOUS
  <2>1. /\ "default" \in DOMAIN loader.conf.modes
        /\ \A d \in DOMAIN loader.conf.modes : loader.conf.modes[d] \in Codes
    BY LoaderParts DEF MInv, ModeTables
  <2>2. ConfigTypeOK
    BY <2>1, LoaderParts DEF MInv, FileOK, ConfigTypeOK, Modi
  <2>3. self \in MilterObject
    BY DEF MInv, Session, SessionOK
  <2>4. /\ self.from \in {"", "a"} /\ self.headers \in SUBSET Mails /\ self.held \in SUBSET Mails
        /\ self.rcpts \in Seq(Mails \X (1 .. MaxRcpts))
        /\ self.buffer \in {"none", "open", "closed"} /\ self.listed \in BOOLEAN
        /\ self.rtn \in Codes /\ self.scanned \in BOOLEAN
    BY <2>3 DEF MilterObject, Recipients
  <2> QED BY <2>2, <2>4 DEF MInv, Session, SessionOK, MilterTypeOK
<1> QED BY <1>1, MilterInvariant, PTL

(* The verdict of a mail for which the object was initialised is its own:   *)
(* of any number of mails, with eom repeated at will, exceptions anywhere,  *)
(* and the configuration file in any state.                                 *)
THEOREM VerdictIsOwn == MilterSpec => []OwnVerdict
<1>1. MInv => OwnVerdict
  BY DEF MInv, Session
<1> QED BY <1>1, MilterInvariant, PTL

(* The log of such a mail, however many recipients it has and wherever an   *)
(* exception ends its eom: all of them once when it is marked as scanned,   *)
(* none of another mail, and at most one is lost.                           *)
THEOREM EachRecipientLogged == MilterSpec => []LoggedOnce
<1>1. MInv => LoggedOnce
  <2> SUFFICES ASSUME MInv, fresh
               PROVE  /\ IsInjective(logged) /\ ToSet(logged) \subseteq given
                      /\ self.scanned => ToSet(logged) = given
                      /\ Cardinality(Lost) <= 1
    BY DEF LoggedOnce
  <2>1. Accounted(self, logged, ground)
    BY DEF MInv, Session, Listing
  <2>2. PICK r : given \subseteq ToSet(logged) \cup ToSet(self.rcpts) \cup {r}
    BY <2>1 DEF Accounted
  <2>3. Lost \in SUBSET {r}
    BY <2>2 DEF Lost
  <2>4. Cardinality(Lost) <= 1
    <3>1. IsFiniteSet({r}) /\ Cardinality({r}) = 1
      BY FS_Singleton
    <3>2. Cardinality(Lost) <= Cardinality({r})
      BY <2>3, <3>1, FS_Subset
    <3> QED BY <3>1, <3>2
  <2> QED BY <2>1, <2>4 DEF Accounted
<1> QED BY <1>1, MilterInvariant, PTL

(* A mail is sent to the scanner, again too, only before anything is done   *)
(* about its recipients.                                                    *)
THEOREM LoggedAfterLastScan == MilterSpec => ScannedBeforeLogged
<1>1. MInv /\ Asked => logged = <<>> /\ given \subseteq ToSet(self.rcpts)
  BY DEF MInv, Session, Stage, Listing, Unlogged, Asked
<1>2. MInv => [Asked => logged = <<>> /\ given \subseteq ToSet(self.rcpts)]_vars
  BY <1>1
<1> QED BY <1>2, MilterInvariant, PTL DEF ScannedBeforeLogged

(* In maintenance no mail is sent to the scanner.                           *)
THEOREM MaintenanceScansNothing == MilterSpec => ShutdownScansNothing
<1>1. MInv => [Asked => self.conf.mode = "run"]_vars
  BY DEF MInv, Session, Stage, Asked
<1> QED BY <1>1, MilterInvariant, PTL DEF ShutdownScansNothing
===========================================================================
