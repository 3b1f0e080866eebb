--------------------------------- MODULE Pem ---------------------------------
(***************************************************************************)
(* pkg/util/tls/marshal.go: certificates and keys as PEM text and back.  A *)
(* text is the sequence of its blocks; pem.Decode skips what stands        *)
(* between them.  Others append blocks of their own.                       *)
(***************************************************************************)
EXTENDS Naturals, Sequences, FiniteSets, SequencesExt

CONSTANTS
  Certs,      \* certificates
  Keys,       \* private keys, all RSA
  MaxBlocks,  \* bound on the length of the text
  NilPointer  \* a nil pointer

Block(type, body) == [Type |-> type, Bytes |-> body]
Error == "error"
Broken == "broken"  \* bytes that do not parse
Elliptic == "elliptic"  \* a PKCS#8 key that is not RSA
ForeignBlocks ==
  { Block("CERTIFICATE", Broken), Block("EC PARAMETERS", Broken), Block("PRIVATE KEY", Broken),
    Block("RSA PRIVATE KEY", Broken), Block("PRIVATE KEY", Elliptic) } \cup {Block("PRIVATE KEY", k) : k \in Keys}

ASSUME PemAssumption ==
  /\ (Certs \cup Keys) \cap {Error, Broken, Elliptic, NilPointer} = {}
  /\ NilPointer # Error

VARIABLE pem  \* the text so far

------------------------------------------------------------------------------
Fits(n) == Len(pem) + n <= MaxBlocks

(* pem.Encode of one after the other into a buffer of the call's own.  A   *)
(* nil pointer panics and the panic is recovered: the caller gets an error *)
(* and no bytes.                                                           *)
EncodeBlocks(type, bodies) ==
  /\ Fits(Len(bodies))
  /\ pem' = IF NilPointer \in ToSet(bodies) THEN pem
             ELSE pem \o [i \in DOMAIN bodies |-> Block(type, bodies[i])]

CertChainAsBytes(certs) == EncodeBlocks("CERTIFICATE", certs)
PrivateKeyAsBytes(key) == EncodeBlocks("RSA PRIVATE KEY", <<key>>)
PublicKeyAsBytes(key) == EncodeBlocks("PUBLIC KEY", <<key>>)

Foreign ==
  /\ Fits(1)
  /\ \E b \in ForeignBlocks : pem' = Append(pem, b)

------------------------------------------------------------------------------
(* Mutant: a block that does not parse is skipped. *)
MutParseCertChain(blocks) ==
  LET read == SelectSeq(blocks, LAMBDA b : b.Type = "CERTIFICATE" /\ b.Bytes # Broken)
  IN  [err |-> FALSE, certs |-> [i \in DOMAIN read |-> read[i].Bytes]]

(* One block that does not parse ends it: no certificate is returned.      *)
ParseCertChain(blocks) ==
  LET Read(r, b) ==
        IF r.err \/ b.Type # "CERTIFICATE" THEN r
        ELSE IF b.Bytes = Broken THEN [err |-> TRUE, certs |-> <<>>]
        ELSE [err |-> FALSE, certs |-> Append(r.certs, b.Bytes)]
      upTo[n \in 0..Len(blocks)] ==
        IF n = 0 THEN [err |-> FALSE, certs |-> <<>>] ELSE Read(upTo[n - 1], blocks[n])
  IN  upTo[Len(blocks)]

ParseCert(blocks) ==
  LET r == ParseCertChain(blocks)
  IN  IF r.err \/ r.certs = <<>> THEN Error ELSE Head(r.certs)

(* Mutant: a PKCS#8 block that does not parse ends the search. *)
MutDecides(b) == b.Type \in {"RSA PRIVATE KEY", "PRIVATE KEY"}

(* What a block decides: a key, or that there is none for a PKCS#1 block   *)
(* that does not parse and a PKCS#8 key of another kind.  A PKCS#8 block   *)
(* that does not parse is passed over.                                     *)
Decides(b) == b.Type = "RSA PRIVATE KEY" \/ (b.Type = "PRIVATE KEY" /\ b.Bytes # Broken)

(* The first block that decides. *)
ParsePrivateKey(blocks) ==
  LET Read(r, b) ==
        IF r # NilPointer \/ ~Decides(b) THEN r ELSE IF b.Bytes \in Keys THEN b.Bytes ELSE Error
      upTo[n \in 0..Len(blocks)] ==
        IF n = 0 THEN NilPointer ELSE Read(upTo[n - 1], blocks[n])
      found == upTo[Len(blocks)]
  IN  IF found = NilPointer THEN Error ELSE found

UniqueCert(certs) ==
  LET upTo[n \in 0..Len(certs)] ==
        IF n = 0 THEN <<>>
        ELSE IF certs[n] \in ToSet(upTo[n - 1]) THEN upTo[n - 1]
        ELSE Append(upTo[n - 1], certs[n])
  IN  upTo[Len(certs)]

PemInit == pem = <<>>
PemNext == \/ \E n \in 0..2 : \E cs \in [1..n -> Certs \cup {NilPointer}] : CertChainAsBytes(cs)
        \/ \E k \in Keys \cup {NilPointer} : PrivateKeyAsBytes(k) \/ PublicKeyAsBytes(k)
        \/ Foreign
PemSpec == PemInit /\ [][PemNext]_pem

------------------------------------------------------------------------------
(* A bundle is read back whole and in order, whatever other blocks stand   *)
(* in it, or not at all: ParseCert fails for a broken certificate behind   *)
(* the one it is to return (marshal.go 91-123).  UniqueCert then keeps     *)
(* each certificate once, at its first place (marshal.go 152-165).         *)
WholeOrNothing ==
  LET broken == \E i \in DOMAIN pem : pem[i] = Block("CERTIFICATE", Broken)
      r == ParseCertChain(pem)
      standing == {i \in DOMAIN pem : pem[i].Type = "CERTIFICATE"}
  IN  /\ r.err <=> broken
      /\ ~broken => /\ Len(r.certs) = Cardinality(standing)
                    /\ \A i \in standing :
                         r.certs[Cardinality({j \in standing : j <= i})] = pem[i].Bytes
      /\ ParseCert(pem) # Error => ~broken /\ standing # {}
KeepsFirsts ==
  LET certs == ParseCertChain(pem).certs
      u == UniqueCert(certs)
      Place(s, c) == CHOOSE i \in DOMAIN s : s[i] = c /\ \A j \in 1..i - 1 : s[j] # c
  IN  /\ ToSet(u) = ToSet(certs)
      /\ \A i, j \in DOMAIN u : i < j => Place(certs, u[i]) < Place(certs, u[j])
ChainsSurvive == WholeOrNothing /\ KeepsFirsts

(* The key of a text is the first in it, in either encoding, whatever      *)
(* certificates, public keys and unreadable PKCS#8 blocks stand before it: *)
(* only a key of another kind and a broken PKCS#1 block hide it            *)
(* (marshal.go 125-150).                                                   *)
IsKey(b) == b.Type \in {"RSA PRIVATE KEY", "PRIVATE KEY"} /\ b.Bytes \in Keys
Hides(b) == b.Bytes = Elliptic \/ b = Block("RSA PRIVATE KEY", Broken)
FirstKeyFound ==
  \A i \in DOMAIN pem :
    IsKey(pem[i]) /\ (\A j \in 1..i - 1 : ~IsKey(pem[j]))
      => (ParsePrivateKey(pem) = pem[i].Bytes <=> \A j \in 1..i - 1 : ~Hides(pem[j]))
==============================================================================
