-------------------------- MODULE MCInboundPipeline --------------------------
(* InboundPipeline for TLC.                                                *)
EXTENDS InboundPipeline

\* Two calls of ingress may fail, or one call of the others, but not while a
\* failed ingress is still at work: half the states, every failure on its own
\* and those of the others before and after those of ingress.
FailuresApart == fails' = 0 \/ ifails' = 0
=============================================================================
