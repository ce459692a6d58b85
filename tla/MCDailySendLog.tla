--------------------------- MODULE MCDailySendLog ---------------------------
(***************************************************************************)
(* A bounded instance of DailySendLog for TLC: a domain with a limit of    *)
(* its own and one that only its provider's limit caps.                    *)
(***************************************************************************)
EXTENDS DailySendLog, FiniteSetsExt, TLC

CONSTANTS
  CappedDomain, FreeDomain,
  MaxMail,       \* bound on the mails accepted per row
  MaxFailures    \* bound on the failed, lost and leaked calls of all rows

MCDomain == {CappedDomain, FreeDomain}

MCDomainLimit == [d \in MCDomain |-> IF d = CappedDomain THEN 1 ELSE 0]

Failures == MapThenSumSet(LAMBDA r : failedCount[r] + lost[r] + leaked[r], Row)

MCNext ==
  \/ Midnight
  \/ \E w \in Worker :
       \/ \E d \in Domain : ReserveSendSlot(w, d)
       \/ \E d \in Domain : RefuseSendSlot(w, d) /\ Failures' <= MaxFailures
       \/ ProviderAccepts(w) /\ \A r \in Row : mailed'[r] <= MaxMail
       \/ ConfirmSend(w)
       \/ TransientFailure(w) /\ Failures' <= MaxFailures
       \/ PermanentFailure(w) /\ Failures' <= MaxFailures
       \/ AbandonSlot(w) /\ Failures' <= MaxFailures

MCSpec == LogInit /\ [][MCNext]_logVars

WorkerSymmetry == Permutations(Worker)
=============================================================================
