------------------------------ MODULE MCDecoy ------------------------------
(* Model-checking instance of Decoy: three SURB contexts (two sharing an  *)
(* ETA and a third stored after the nil node appears), a clock of three    *)
(* ticks, transit times of one or two ticks and one tick of slack, so that *)
(* replies arrive before and after their sweep; one token-base, the case   *)
(* of a restart within the same second; up to two copies of a reply in    *)
(* flight, enough to deliver a duplicate or a tampered copy first.         *)
EXTENDS Decoy

MCMaxCtx == 3
MCMaxTime == 3
MCMaxDelta == 2
MCSlack == 1
MCBases == {1}
MCMaxCopies == 2
=============================================================================
