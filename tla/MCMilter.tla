------------------------------ MODULE MCMilter ------------------------------
(* LaikaMilter for TLC: a configuration like the one in etc, and one for    *)
(* maintenance, in which the answer to a mail is misspelt: it is CONTINUE.  *)
EXTENDS LaikaMilter

Modes(inmaint) == [d \in {"deny", "overlimit", "inmaintmode"} |->
  CASE d = "deny" -> "DISCARD" [] d = "overlimit" -> "TEMPFAIL" [] d = "inmaintmode" -> inmaint]

Running == [mode |-> "run", servers |-> <<"s1">>, modes |-> Modes("TEMPFAIL")]
Maintained == [mode |-> "shutdown", servers |-> <<"s1">>, modes |-> Modes("TEMPFIAL")]
Confs2 == {Running, Maintained}
===========================================================================
