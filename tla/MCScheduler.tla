----------------------------- MODULE MCScheduler -----------------------------
(***************************************************************************)
(* The worker loop with its store on a small instance: three contexts, a   *)
(* clock to 3 with transit time 1 and slack 1 (so contexts become overdue  *)
(* while the worker runs), two epochs and two documents (enough for a      *)
(* document of the next epoch to arrive early, be rejected, and for the    *)
(* epoch to roll over with or without a fresh document).  The cfg keeps    *)
(* ETAs distinct; the collision is the store's own run.                    *)
(***************************************************************************)
EXTENDS Scheduler

MCMaxCtx == 3
MCMaxTime == 3
MCMaxDelta == 1
MCSlack == 1
MCMaxEpoch == 1
MCMaxDocs == 2

=============================================================================
