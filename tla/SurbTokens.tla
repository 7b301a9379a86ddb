----------------------------- MODULE SurbTokens -----------------------------
(***************************************************************************)
(* What the SURB context store of src/internal/decoy/decoy.go promises,    *)
(* with no map, tree or list: a set of live reply tokens.  sendLoopPacket  *)
(* issues a fresh token with its expected arrival; loadAndDeleteSURBCtx    *)
(* retires a live token; sweepSURBCtxs retires exactly the tokens whose    *)
(* ETA plus slack is not after the clock, and no other.                    *)
(***************************************************************************)
EXTENDS Naturals

CONSTANTS MaxCtx, MaxTime, MaxDelta, Slack

VARIABLES
  now,      \* monotime.Now()
  nextCtx,  \* the next token to issue
  ctxEta,   \* ctxEta[c]: token c's expected arrival
  live      \* tokens issued and neither retired nor swept

tokenVars == <<now, nextCtx, ctxEta, live>>

\* A token whose reply is overdue: its ETA plus the slack has been reached.
Overdue(c) == ctxEta[c] + Slack <= now

\* storeSURBCtx after sendLoopPacket computes eta = now + deltaT.
Issue(d) ==
  /\ nextCtx <= MaxCtx
  /\ live' = live \cup {nextCtx}
  /\ ctxEta' = [ctxEta EXCEPT ![nextCtx] = now + d]
  /\ nextCtx' = nextCtx + 1
  /\ UNCHANGED now

\* loadAndDeleteSURBCtx for a stored id: the token is returned once.
Retire(c) ==
  /\ c \in live
  /\ live' = live \ {c}
  /\ UNCHANGED <<now, nextCtx, ctxEta>>

\* sweepSURBCtxs: every overdue token goes, every other stays.
Sweep ==
  /\ live' = {c \in live : ~Overdue(c)}
  /\ UNCHANGED <<now, nextCtx, ctxEta>>

Advance ==
  /\ now < MaxTime
  /\ now' = now + 1
  /\ UNCHANGED <<nextCtx, ctxEta, live>>

TokensInit ==
  /\ now = 0
  /\ nextCtx = 1
  /\ ctxEta = [c \in 1..MaxCtx |-> 0]
  /\ live = {}

TokensNext ==
  \/ Advance
  \/ \E d \in 1..MaxDelta : Issue(d)
  \/ \E c \in live : Retire(c)
  \/ Sweep

TokensSpec == TokensInit /\ [][TokensNext]_tokenVars

=============================================================================
