----------------------------- MODULE ImportLedger -----------------------------
(***************************************************************************)
(* What the canonical store promises its callers, without files, rows,     *)
(* locks or startup: an import happens at one instant, only while writes   *)
(* are admitted; a receipt is only given for an import that happened;      *)
(* nothing is condemned unless the environment lost it; and a vault with   *)
(* condemned data never admits a write again (this release repairs none).  *)
(***************************************************************************)
CONSTANTS Imports, Contents, None

VARIABLES
  link,       \* content each import made permanent
  acked,      \* imports whose caller has the receipt
  lost,       \* contents whose original the environment damaged
  condemned,  \* imports reported as CORRUPTED
  writable    \* writes are admitted

vars == <<link, acked, lost, condemned, writable>>

LedgerInit ==
  /\ link = [i \in Imports |-> None]
  /\ acked = {} /\ lost = {} /\ condemned = {} /\ writable = TRUE

\* An import becomes permanent.
Commit(i, c) ==
  /\ writable
  /\ link[i] = None
  /\ link' = [link EXCEPT ![i] = c]
  /\ UNCHANGED <<acked, condemned, writable>>
  /\ lost \subseteq lost'  \* its file may have been damaged since its last check

Acknowledge(i) ==
  /\ link[i] # None
  /\ acked' = acked \cup {i}
  /\ UNCHANGED <<link, lost, condemned, writable>>

Lose ==
  /\ lost \subseteq lost'
  /\ UNCHANGED <<link, acked, condemned, writable>>

\* A damaged original is found: no more writes, some of its imports condemned.
Discover ==
  /\ lost # {}
  /\ writable' = FALSE
  /\ condemned \subseteq condemned'
  /\ \A i \in condemned' : link[i] \in lost
  /\ UNCHANGED <<link, acked, lost>>

\* The vault is closed, or dies.
Withdraw == writable' = FALSE /\ UNCHANGED <<link, acked, lost, condemned>>

\* The vault is open again.
Readmit ==
  /\ condemned = {}
  /\ writable' = TRUE
  /\ UNCHANGED <<link, acked, lost, condemned>>

LedgerNext ==
  \/ \E i \in Imports, c \in Contents : Commit(i, c)
  \/ \E i \in Imports : Acknowledge(i)
  \/ Lose \/ Discover \/ Withdraw \/ Readmit

LedgerSpec == LedgerInit /\ [][LedgerNext]_vars
=============================================================================
