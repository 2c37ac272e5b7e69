--------------------------- MODULE MilterConfig ---------------------------
(***************************************************************************)
(* MilterConfig of laikamilter.py: the configuration of the milter, read   *)
(* anew for every mail and again for every scan.  loadAll calls four       *)
(* loaders, each of which reads the file again; the file may be rewritten  *)
(* at any time ("it may be unreadable while the new file is written to     *)
(* disk").                                                                 *)
(*                                                                         *)
(* Of a configuration the model keeps the mode, the scan servers and the   *)
(* modes of the dispositions.  The sections come in the order of the file  *)
(* in etc: COMMON, ScanServers, DispositionMode, HeaderOptions,            *)
(* ArchiveOptions.  A file being written holds the first `upto' of them,   *)
(* and may be cut within a line of the next, or before an option of it.    *)
(***************************************************************************)
EXTENDS Naturals, Sequences

CONSTANTS
  Confs,          \* configurations an administrator writes
  Written,        \* how many sections a writer may have written
  MaxLoadAttempts,\* maxLoadAttempts
  MaxRewrites     \* bound: how often the file changes

Codes == {"ACCEPT", "CONTINUE", "REJECT", "DISCARD", "TEMPFAIL"}

ASSUME MilterConfigAssumption ==
  /\ Written \subseteq 0 .. 4
  /\ MaxLoadAttempts \in Nat \ {0} /\ MaxRewrites \in Nat
  /\ \A c \in Confs : c.mode \in {"run", "shutdown"} /\ Len(c.servers) \in Nat

VARIABLES
  file,           \* the configuration file
  rewrites,       \* how often it has changed
  loader          \* the MilterConfig being loaded

configVars == <<file, rewrites, loader>>

Files == [conf : Confs, upto : Written \cup {5}, cut : {"no"}]
           \cup [conf : Confs, upto : {2}, cut : {"line"}]
           \cup [conf : Confs, upto : {4}, cut : {"option"}]

LoaderSteps == {"loadConfig", "loadScanServers", "loadDispositionModes", "loadHeaderOptions"}

(* What MilterConfig() holds before anything is read.                       *)
Defaults == [mode |-> "run", servers |-> <<>>, modes |-> [d \in {"default"} |-> "CONTINUE"]]

IdleLoader == [at |-> "idle", attempt |-> 0, error |-> FALSE, conf |-> Defaults]
NewLoader == [IdleLoader EXCEPT !.at = "loadConfig", !.attempt = 1]

(* The file as it happens to be when the connection is made.                *)
ConfigInit ==
  /\ file \in Files
  /\ rewrites = 0
  /\ loader = IdleLoader

---------------------------------------------------------------------------
(* A slip: a name that is no answer is kept.                                *)
ConvertNot(name) == name

(* _convertDispositionMode *)
Convert(name) == IF name \in Codes THEN name ELSE "CONTINUE"

Merge(new, old) ==
  [d \in DOMAIN new \cup DOMAIN old |-> IF d \in DOMAIN new THEN Convert(new[d]) ELSE old[d]]

Has(section) == file.upto >= section

(* One of the loaders.  A section that is not there is an error, except in  *)
(* the last attempt; a file that does not parse is an exception that        *)
(* nothing in loadAll catches.                                              *)
Read(here, next, complete, conf) ==
  /\ loader.at = here
  /\ loader' = IF file.cut = "line" THEN [loader EXCEPT !.at = "raised"]
               ELSE [loader EXCEPT !.at = next, !.conf = conf,
                      !.error = @ \/ (~complete /\ loader.attempt < MaxLoadAttempts)]
  /\ UNCHANGED <<file, rewrites>>

(* COMMON, and ArchiveOptions after it, where an option that is missing is  *)
(* an exception too.                                                        *)
LoadConfig ==
  Read("loadConfig", IF file.cut = "option" THEN "raised" ELSE "loadScanServers", Has(5),
       IF Has(1) THEN [loader.conf EXCEPT !.mode = file.conf.mode] ELSE loader.conf)

(* The servers are added to those an earlier attempt has read.              *)
LoadScanServers ==
  Read("loadScanServers", "loadDispositionModes", Has(2),
       IF Has(2) THEN [loader.conf EXCEPT !.servers = @ \o file.conf.servers] ELSE loader.conf)

LoadDispositionModes ==
  Read("loadDispositionModes", "loadHeaderOptions", Has(3),
       IF Has(3) THEN [loader.conf EXCEPT !.modes = Merge(file.conf.modes, @)] ELSE loader.conf)

LoadHeaderOptions == Read("loadHeaderOptions", "again", Has(4), loader.conf)

(* A slip: the attempts are not counted.                                    *)
LoadAgainForever ==
  /\ loader.at = "again"
  /\ loader' = IF loader.error THEN [loader EXCEPT !.at = "loadConfig", !.error = FALSE]
               ELSE [loader EXCEPT !.at = "done"]
  /\ UNCHANGED <<file, rewrites>>

(* The end of loadAll: once more after an error.                            *)
LoadAgain ==
  /\ loader.at = "again"
  /\ loader' = IF loader.error /\ loader.attempt <= MaxLoadAttempts
               THEN [loader EXCEPT !.at = "loadConfig", !.attempt = @ + 1, !.error = FALSE]
               ELSE [loader EXCEPT !.at = "done"]
  /\ UNCHANGED <<file, rewrites>>

LoadAll == LoadConfig \/ LoadScanServers \/ LoadDispositionModes \/ LoadHeaderOptions \/ LoadAgain

Loading == loader.at \in LoaderSteps \cup {"again"}

(* The administrator, or the tool that distributes configurations, has      *)
(* written some more.  What is written while nobody reads may as well be    *)
(* written just before the next reading.                                    *)
Rewrite ==
  /\ Loading /\ rewrites < MaxRewrites
  /\ file' \in Files \ {file}
  /\ rewrites' = rewrites + 1
  /\ UNCHANGED loader

ConfigTypeOK ==
  /\ file \in Files
  /\ rewrites \in 0 .. MaxRewrites
  /\ loader.at \in LoaderSteps \cup {"idle", "again", "done", "raised"}
  /\ loader.attempt \in 0 .. MaxLoadAttempts + 1
  /\ loader.error \in BOOLEAN
  /\ loader.conf.mode \in {"run", "shutdown"}
  /\ "default" \in DOMAIN loader.conf.modes
  /\ \A d \in DOMAIN loader.conf.modes : loader.conf.modes[d] \in Codes
===========================================================================
