------------------------- MODULE MCSurbLifecycle --------------------------
(* Model-checking instance of SurbLifecycle: three contexts, a clock of   *)
(* four ticks, transit times of one or two ticks and one tick of slack,   *)
(* enough for two contexts to share an ETA, for a sweep to stop at a     *)
(* node that is not yet due and for one to find a node that is.          *)
EXTENDS SurbLifecycle

MCMaxCtx == 3
MCMaxTime == 3
MCMaxDelta == 2
MCSlack == 1
=============================================================================
