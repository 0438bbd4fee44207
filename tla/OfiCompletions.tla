--------------------------- MODULE OfiCompletions ----------------------------
(***************************************************************************)
(* What a completion queue promises its readers: every completion that was *)
(* accepted is read once, in the order written, an ordinary one with       *)
(* fi_cq_read and an error with fi_cq_readerr only.  Completions are       *)
(* numbered from 0 as they are accepted; there is no limit on how many     *)
(* wait.                                                                   *)
(***************************************************************************)
EXTENDS Naturals

VARIABLES
  nwr,    \* completions accepted
  errs,   \* the numbers of those that report an error
  got,    \* number after the last completion read
  via     \* the call that read it

QueueInit == nwr = 0 /\ errs = {} /\ got = 0 /\ via = "none"

Accept(err) ==
  /\ nwr' = nwr + 1
  /\ errs' = IF err THEN errs \cup {nwr} ELSE errs
  /\ UNCHANGED <<got, via>>

Take ==
  /\ got < nwr
  /\ got' = got + 1
  /\ via' = IF got \in errs THEN "readerr" ELSE "read"
  /\ UNCHANGED <<nwr, errs>>

QueueNext == Take \/ \E err \in BOOLEAN : Accept(err)

QueueSpec == QueueInit /\ [][QueueNext]_<<nwr, errs, got, via>>
=============================================================================
