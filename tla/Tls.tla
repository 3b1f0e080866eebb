--------------------------------- MODULE Tls ---------------------------------
(***************************************************************************)
(* pkg/util/tls/tls.go: keys and certificates, how they are issued, and    *)
(* how a caller finds out whether those it has still fit what it wants.    *)
(* A key is a number; a signature is the key it was made with.             *)
(***************************************************************************)
EXTENDS Naturals, Sequences, FiniteSets

CONSTANTS
  Requests,  \* subjects, names, addresses and usages of the certificates wanted
  MaxKeys,   \* bound: keys generated
  None

(* A Go slice is nil or a list, and reflect.DeepEqual tells nil from the   *)
(* list without elements.                                                  *)
Nil == [nil |-> TRUE, list |-> <<>>]
List(s) == [nil |-> FALSE, list |-> s]
Slice(S) == {Nil} \cup [nil : {FALSE}, list : Seq(S)]

(* net.IP: an IPv4 address in its 4-byte or in its 16-byte form.           *)
Address(h, bytes) == [host |-> h, bytes |-> bytes]
Addresses == [host : STRING, bytes : {4, 16}]

Certificates ==
  [Subject : STRING, DNSNames : Slice(STRING), IPAddresses : Slice(Addresses),
   ExtKeyUsage : Slice(STRING), PublicKey : Nat, Signature : Nat, IsCA : BOOLEAN]

RequestType ==
  [Subject : STRING, DNSNames : Slice(STRING),
   IPAddresses : Slice(Addresses), ExtKeyUsage : Slice(STRING)]

ASSUME TlsAssumption ==
  /\ Requests \subseteq RequestType
  /\ MaxKeys \in Nat
  /\ None \notin Nat \cup Certificates

VARIABLES issued,  \* the keys and certificates issued, each with its CertParams
          keys     \* how many keys were generated

tlsVars == <<issued, keys>>

------------------------------------------------------------------------------
Request(s, d, i, u) == [Subject |-> s, DNSNames |-> d, IPAddresses |-> i, ExtKeyUsage |-> u]

(* x509.CreateCertificate and ParseCertificate: an empty list leaves no    *)
(* trace in a certificate, and an IPv4 address comes back with 4 bytes.    *)
Parsed(l) == IF l.list = <<>> THEN Nil ELSE l
ParsedIPs(l) ==
  Parsed([l EXCEPT !.list = [i \in DOMAIN l.list |-> Address(l.list[i].host, 4)]])
Certificate(r, key, signingKey, ca) ==
  [Subject |-> r.Subject, DNSNames |-> Parsed(r.DNSNames),
   IPAddresses |-> ParsedIPs(r.IPAddresses), ExtKeyUsage |-> Parsed(r.ExtKeyUsage),
   PublicKey |-> key, Signature |-> signingKey, IsCA |-> ca]
(* cert.CheckSignatureFrom(parent) asks for a CA and its key, not for its  *)
(* name.                                                                   *)
CheckSignature(cert, key) == cert.Signature = key
CheckSignatureFrom(cert, parent) == parent.IsCA /\ CheckSignature(cert, parent.PublicKey)

(* newCert: self-signed if there is neither key nor certificate to sign    *)
(* with.  With one of the two alone CreateCertificate panics: no caller    *)
(* here does that.                                                         *)
Signer(p, key) == IF p.SigningKey = None /\ p.SigningCert = None THEN key ELSE p.SigningKey

CertParams(r, signingKey, signingCert) ==
  [request |-> r, SigningKey |-> signingKey, SigningCert |-> signingCert]

------------------------------------------------------------------------------
(* An error of the random source leaves everything as it was. *)
Issue(cert, p) ==
  /\ issued' = issued \cup {[key |-> keys + 1, cert |-> cert, params |-> p]}
  /\ keys' = keys + 1

NewCA(r) ==
  LET ca == Request(r.Subject, Nil, Nil, Nil)
  IN  /\ keys < MaxKeys
      /\ Issue(Certificate(ca, keys + 1, keys + 1, TRUE), CertParams(ca, None, None))

NewCert(p) ==
  /\ keys < MaxKeys
  /\ Issue(Certificate(p.request, keys + 1, Signer(p, keys + 1), FALSE), p)

(* The CertParams a caller may have: self-signed, or signed with the key   *)
(* and the certificate of something issued before.                         *)
Wanted(r) == {CertParams(r, None, None)} \cup {CertParams(r, i.key, i.cert) : i \in issued}

(* Mutant: addresses are compared in the form they have. *)
MutNetIPsEqual(a, b) == a = b

netIPsEqual(a, b) ==
  /\ Len(a.list) = Len(b.list)
  /\ \A i \in DOMAIN a.list : a.list[i].host = b.list[i].host

CertMatchesParams(key, cert, p) ==
  /\ key # None /\ cert # None
  /\ key = cert.PublicKey
  /\ cert.Subject = p.request.Subject
  /\ cert.DNSNames = p.request.DNSNames
  /\ netIPsEqual(cert.IPAddresses, p.request.IPAddresses)
  /\ cert.ExtKeyUsage = p.request.ExtKeyUsage
  /\ IF p.SigningCert # None THEN CheckSignatureFrom(cert, p.SigningCert)
                             ELSE CheckSignature(cert, cert.PublicKey)

TlsInit == issued = {} /\ keys = 0
TlsNext == \E r \in Requests : NewCA(r) \/ \E p \in Wanted(r) : NewCert(p)
TlsSpec == TlsInit /\ [][TlsNext]_tlsVars

------------------------------------------------------------------------------
(* What a caller asked for, as far as certificates can tell.               *)
Hosts(l) == [i \in DOMAIN l.list |-> l.list[i].host]
Alike(p, q) ==
  /\ p.request.Subject = q.request.Subject
  /\ p.request.DNSNames.list = q.request.DNSNames.list
  /\ Hosts(p.request.IPAddresses) = Hosts(q.request.IPAddresses)
  /\ p.request.ExtKeyUsage.list = q.request.ExtKeyUsage.list

(* Its signer is the one the params name.  A CA has signed itself, so it   *)
(* also fits params that name it as their CA.                              *)
SignedAsWanted(i, q) ==
  IF i.params.SigningCert = None THEN q.SigningCert \in {None, i.cert}
                                 ELSE q.SigningCert = i.params.SigningCert

(* A certificate can be used with params whose signer is a CA.             *)
Sound(p) == p.SigningCert = None \/ p.SigningCert.IsCA

(* The caller leaves a list without elements nil: names and usages come    *)
(* back from a certificate like that, and reflect.DeepEqual tells.         *)
NilIfEmpty(r) == \A l \in {r.DNSNames, r.ExtKeyUsage} : l.list = <<>> => l.nil

(* "should return true immediately after calling NewCert" (tls_test.go     *)
(* 239), but for a list that is empty and not nil (tls.go 126-128): what   *)
(* is issued for params a CA can sign matches them, or a caller that       *)
(* renews what does not match would renew it for ever.  And it matches no  *)
(* others: not after a change of the name, the addresses or their order,   *)
(* the usages, the CA, or from a CA to none and back; and only with its    *)
(* own key (tls.go 113-145).                                               *)
MatchesItsParamsOnly ==
  \A i, j \in issued : \A r \in Requests : \A q \in Wanted(r) \cup {i.params} :
     CertMatchesParams(j.key, i.cert, q)
       <=> i = j /\ Alike(i.params, q) /\ SignedAsWanted(i, q) /\ Sound(q) /\ NilIfEmpty(q.request)
==============================================================================
