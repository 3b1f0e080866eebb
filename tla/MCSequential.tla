---------------------------- MODULE MCSequential -----------------------------
(***************************************************************************)
(* The parts of the program that share nothing with another goroutine,     *)
(* side by side: a behaviour exercises one of them, the others stay where  *)
(* they are.                                                               *)
(***************************************************************************)
EXTENDS MCDocument, MCPathSyntax, MCTranslate, MCDrift, MCTls, MCPem

CONSTANT Parts  \* the parts that are exercised

VARIABLE part

(* A call has panicked: no other follows. *)
NoDocument == doc = EmptyMap /\ Uncalled /\ panic = TRUE
(* Compile has returned the rules of "$". *)
CompiledRoot ==
  /\ text = <<"$">> /\ rest = <<>> /\ read = <<5, Eof>> /\ look = <<>>
  /\ stack = <<>> /\ status = "accepted" /\ out = <<>>
NoTranslation ==
  /\ config = [f \in StaticConfig |-> ""]
  /\ asset = "Namespace/openshift-velero" /\ o = Assets[asset] /\ i = 0
NoPass == case = (CHOOSE c \in Cases : TRUE) /\ live = NoObject /\ edits = 0

Init ==
  /\ part \in Parts
  /\ IF part = "document" THEN DocumentInit ELSE NoDocument
  /\ IF part = "path" THEN ParserInit ELSE CompiledRoot
  /\ IF part = "translation" THEN TranslateInit ELSE NoTranslation
  /\ IF part = "drift" THEN DriftInit ELSE NoPass
  /\ TlsInit /\ PemInit

Next ==
  /\ UNCHANGED part
  /\ \/ /\ part = "document" /\ DocumentNext
        /\ UNCHANGED <<parserVars, translateVars, driftVars, tlsVars, pem>>
     \/ /\ part = "path" /\ ParserNext
        /\ UNCHANGED <<documentVars, translateVars, driftVars, tlsVars, pem>>
     \/ /\ part = "translation" /\ TranslateNext
        /\ UNCHANGED <<documentVars, parserVars, driftVars, tlsVars, pem>>
     \/ /\ part = "drift" /\ DriftNext
        /\ UNCHANGED <<documentVars, parserVars, translateVars, tlsVars, pem>>
     \/ /\ part = "tls" /\ TlsNext
        /\ UNCHANGED <<documentVars, parserVars, translateVars, driftVars, pem>>
     \/ /\ part = "pem" /\ PemNext
        /\ UNCHANGED <<documentVars, parserVars, translateVars, driftVars, tlsVars>>

vars == <<part, documentVars, parserVars, translateVars, driftVars, tlsVars, pem>>
Spec == Init /\ [][Next]_vars
==============================================================================
