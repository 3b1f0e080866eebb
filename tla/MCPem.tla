-------------------------------- MODULE MCPem --------------------------------
(* Two certificates and two keys in texts of a few blocks.                  *)
EXTENDS Pem

SomeCerts == {"c1", "c2"}
SomeKeys == {"k1", "k2"}
==============================================================================
