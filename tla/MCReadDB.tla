------------------------------- MODULE MCReadDB ------------------------------
(* An instance of ReadDB for TLC: one object with an asset per platform,   *)
(* an object for all clouds, and an asset without the label.               *)
EXTENDS ReadDB

CONSTANTS onAws, onGcp, everywhere, stray, cfg, ns, aws, AWS, gcp

MCKeyOf == [a \in Assets |-> IF a \in {onAws, onGcp} THEN cfg ELSE ns]
MCFold == [p \in Platforms |-> IF p = AWS THEN aws ELSE p]
MCPlatformOf ==
  [a \in Assets |-> CASE a = onAws -> aws [] a = onGcp -> gcp [] OTHER -> None]
==============================================================================
