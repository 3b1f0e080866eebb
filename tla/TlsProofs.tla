------------------------------ MODULE TlsProofs ------------------------------
(***************************************************************************)
(* pkg/util/tls: what CertMatchesParams tells, for every set of requests   *)
(* and any number of keys and certificates, chains of signers of any       *)
(* length among them; what is read back from PEM texts, for every set of   *)
(* certificates and keys and texts of any length.                          *)
(***************************************************************************)
EXTENDS Tls, Pem, TLAPS, SequenceTheorems, WellFoundedInduction,
        NaturalsInduction, FiniteSetTheorems


(* What is known of an issued certificate: it is the one made from its     *)
(* params, and its signer was issued before it.                            *)
SignedBefore(i) ==
  \E k \in issued :
    k.key < i.key /\ i.params.SigningKey = k.key /\ i.params.SigningCert = k.cert
IssuedOK(i) ==
  /\ i = [key |-> i.key, cert |-> i.cert, params |-> i.params]
  /\ i.params = CertParams(i.params.request, i.params.SigningKey, i.params.SigningCert)
  /\ i.key \in 1..keys
  /\ i.params.request \in RequestType
  /\ i.cert.IsCA \in BOOLEAN
  /\ i.cert = Certificate(i.params.request, i.key, Signer(i.params, i.key), i.cert.IsCA)
  /\ \/ i.params.SigningKey = None /\ i.params.SigningCert = None
     \/ SignedBefore(i)

Issuance ==
  /\ keys \in Nat
  /\ \A i \in issued : IssuedOK(i)
  /\ \A i, j \in issued : i.key = j.key => i = j

------------------------------------------------------------------------------
(* What a certificate keeps of its request *)

LEMMA NilSlice == \A S : Nil \in Slice(S)
  BY DEF Slice

LEMMA SliceShape ==
  ASSUME NEW S, NEW l \in Slice(S)
  PROVE  /\ l = [nil |-> l.nil, list |-> l.list]
         /\ l.nil \in BOOLEAN /\ l.list \in Seq(S)
         /\ l.nil => l.list = <<>>
<1>1. CASE l = Nil
  <2>1. l.nil = TRUE /\ l.list = <<>> /\ <<>> \in Seq(S)
    BY <1>1 DEF Nil
  <2>2. l = [nil |-> l.nil, list |-> l.list]
    BY <1>1 DEF Nil
  <2> QED
    BY <2>1, <2>2
<1>2. CASE l \in [nil : {FALSE}, list : Seq(S)]
  BY <1>2
<1> QED
  BY <1>1, <1>2 DEF Slice

LEMMA ParsedSlice ==
  ASSUME NEW S, NEW l \in Slice(S)
  PROVE  /\ Parsed(l) \in Slice(S)
         /\ Parsed(l).list = l.list
         /\ Parsed(l).list = <<>> => Parsed(l) = Nil
  BY DEF Parsed, Slice, Nil

LEMMA ParsedAddresses ==
  ASSUME NEW l \in Slice(Addresses)
  PROVE  /\ ParsedIPs(l) \in Slice(Addresses)
         /\ DOMAIN ParsedIPs(l).list = DOMAIN l.list
         /\ Len(ParsedIPs(l).list) = Len(l.list)
         /\ \A n \in DOMAIN l.list : ParsedIPs(l).list[n].host = l.list[n].host
<1> DEFINE m == [l EXCEPT !.list = [n \in DOMAIN l.list |-> Address(l.list[n].host, 4)]]
<1>1. l.list \in Seq(Addresses) /\ l = [nil |-> l.nil, list |-> l.list]
  BY SliceShape
<1>2. m.list = [n \in 1..Len(l.list) |-> Address(l.list[n].host, 4)]
  <2>1. DOMAIN l.list = 1..Len(l.list)
    BY <1>1
  <2>2. m.list = [n \in DOMAIN l.list |-> Address(l.list[n].host, 4)]
    BY <1>1
  <2> QED
    BY <2>1, <2>2
<1>3. \A n \in 1..Len(l.list) : Address(l.list[n].host, 4) \in Addresses
  <2> SUFFICES ASSUME NEW n \in 1..Len(l.list)
               PROVE  Address(l.list[n].host, 4) \in Addresses
    OBVIOUS
  <2>1. l.list[n] \in Addresses
    BY <1>1
  <2>2. l.list[n].host \in STRING
    BY <2>1 DEF Addresses
  <2> QED
    BY <2>2 DEF Addresses, Address
<1>4. m.list \in Seq(Addresses) /\ Len(m.list) = Len(l.list) /\ DOMAIN m.list = DOMAIN l.list
  BY <1>1, <1>2, <1>3
<1>5. m = [nil |-> l.nil, list |-> m.list]
  BY <1>1
<1>6. m \in Slice(Addresses)
  <2>1. CASE l = Nil
    <3>1. l.list = <<>> /\ l.nil = TRUE
      BY <2>1 DEF Nil
    <3>2. m.list = <<>>
      BY <3>1, <1>4
    <3> QED
      BY <3>1, <3>2, <1>5 DEF Slice, Nil
  <2>2. CASE l \in [nil : {FALSE}, list : Seq(Addresses)]
    BY <2>2, <1>4, <1>5 DEF Slice
  <2> QED
    BY <2>1, <2>2 DEF Slice
<1>7. \A n \in DOMAIN l.list : m.list[n].host = l.list[n].host
  BY <1>1, <1>2 DEF Address
<1>8. ParsedIPs(l) = Parsed(m)
  BY DEF ParsedIPs
<1> HIDE DEF m
<1>9. Parsed(m) \in Slice(Addresses) /\ Parsed(m).list = m.list
  BY <1>6, ParsedSlice
<1> QED
  BY <1>4, <1>7, <1>8, <1>9

LEMMA SameHosts ==
  ASSUME NEW a \in Slice(Addresses), NEW b \in Slice(Addresses)
  PROVE  netIPsEqual(ParsedIPs(a), b) <=> Hosts(a) = Hosts(b)
<1>1. a.list \in Seq(Addresses) /\ b.list \in Seq(Addresses)
  BY SliceShape
<1>2. DOMAIN a.list = 1..Len(a.list) /\ DOMAIN b.list = 1..Len(b.list)
  BY <1>1
<1>3. Len(a.list) \in Nat /\ Len(b.list) \in Nat
  BY <1>1
<1>4. netIPsEqual(ParsedIPs(a), b)
        <=> /\ Len(a.list) = Len(b.list)
            /\ \A n \in DOMAIN a.list : a.list[n].host = b.list[n].host
  BY ParsedAddresses DEF netIPsEqual
<1>5. ASSUME Len(a.list) = Len(b.list),
             \A n \in DOMAIN a.list : a.list[n].host = b.list[n].host
      PROVE  Hosts(a) = Hosts(b)
  BY <1>2, <1>5 DEF Hosts
<1>6. ASSUME Hosts(a) = Hosts(b)
      PROVE  /\ Len(a.list) = Len(b.list)
             /\ \A n \in DOMAIN a.list : a.list[n].host = b.list[n].host
  <2>1. DOMAIN Hosts(a) = DOMAIN a.list /\ DOMAIN Hosts(b) = DOMAIN b.list
    BY DEF Hosts
  <2>2. DOMAIN a.list = DOMAIN b.list
    BY <2>1, <1>6
  <2>3. Len(a.list) = Len(b.list)
    <3>1. \A m, n \in Nat : 1..m = 1..n => m <= n
      <4> SUFFICES ASSUME NEW m \in Nat, NEW n \in Nat, 1..m = 1..n, m # 0 PROVE m <= n
        OBVIOUS
      <4>1. m \in 1..m
        OBVIOUS
      <4> QED
        BY <4>1
    <3>2. 1..Len(a.list) = 1..Len(b.list)
      BY <2>2, <1>2
    <3>3. Len(a.list) <= Len(b.list) /\ Len(b.list) <= Len(a.list)
      BY <3>1, <3>2, <1>3
    <3> QED
      BY <3>3, <1>3
  <2>4. \A n \in DOMAIN a.list : Hosts(a)[n] = a.list[n].host /\ Hosts(b)[n] = b.list[n].host
    BY <2>2 DEF Hosts
  <2> QED
    BY <2>3, <2>4, <1>6
<1> QED
  BY <1>4, <1>5, <1>6

(* A slice that came back from a certificate is the one that was wanted,   *)
(* unless that was empty and not nil.                                      *)
LEMMA SameSlices ==
  ASSUME NEW S, NEW a \in Slice(S), NEW b \in Slice(S)
  PROVE  Parsed(a) = b <=> a.list = b.list /\ (b.list = <<>> => b.nil)
<1>1. \A l \in Slice(S) : l = [nil |-> l.nil, list |-> l.list] /\ l.nil \in BOOLEAN
                          /\ (l.nil => l.list = <<>>)
  BY SliceShape
<1>2. CASE a.list = <<>>
  BY <1>1, <1>2 DEF Parsed, Nil
<1>3. CASE a.list # <<>>
  BY <1>1, <1>3 DEF Parsed
<1> QED
  BY <1>2, <1>3

------------------------------------------------------------------------------
(* What is issued *)

LEMMA IssuePreserves ==
  ASSUME Issuance, NEW r \in RequestType, NEW ca \in BOOLEAN, NEW sk, NEW sc,
         \/ sk = None /\ sc = None
         \/ \E k \in issued : sk = k.key /\ sc = k.cert,
         Issue(Certificate(r, keys + 1, Signer(CertParams(r, sk, sc), keys + 1), ca),
               CertParams(r, sk, sc))
  PROVE  Issuance'
<1> DEFINE p == CertParams(r, sk, sc)
           c == Certificate(r, keys + 1, Signer(p, keys + 1), ca)
           n == [key |-> keys + 1, cert |-> c, params |-> p]
<1>1. issued' = issued \cup {n} /\ keys' = keys + 1 /\ keys \in Nat
  BY DEF Issue, Issuance
<1>2. /\ n.key = keys + 1 /\ n.cert = c /\ n.params = p
      /\ p.request = r /\ p.SigningKey = sk /\ p.SigningCert = sc /\ c.IsCA = ca
  BY DEF CertParams, Certificate
<1> HIDE DEF p, c
<1>3. \A i \in issued : i.key \in 1..keys
  BY DEF Issuance, IssuedOK
<1>4. ASSUME NEW i \in issued PROVE IssuedOK(i)'
  <2>1. IssuedOK(i)
    BY DEF Issuance
  <2>2. SignedBefore(i) => SignedBefore(i)'
    BY <1>1 DEF SignedBefore
  <2>3. i.key \in 1..keys'
    BY <1>1, <1>3
  <2> QED
    BY <2>1, <2>2, <2>3 DEF IssuedOK
<1>5. ASSUME NEW i, i = n PROVE IssuedOK(i)'
  <2>0. /\ i.key = keys + 1 /\ i.cert = c /\ i.params = p
        /\ i = [key |-> i.key, cert |-> i.cert, params |-> i.params]
    BY <1>2, <1>5
  <2>1. i.params = CertParams(i.params.request, i.params.SigningKey, i.params.SigningCert)
    BY <1>2, <2>0 DEF p
  <2>2. i.cert = Certificate(i.params.request, i.key, Signer(i.params, i.key), i.cert.IsCA)
    BY <1>2, <2>0 DEF c
  <2>3. i.key \in 1..keys'
    BY <1>1, <2>0
  <2>4. (sk = None /\ sc = None) \/ SignedBefore(i)'
    <3>1. ASSUME NEW k \in issued, sk = k.key, sc = k.cert PROVE SignedBefore(i)'
      <4>1. k \in issued' /\ k.key < i.key
        BY <1>1, <2>0, <1>3
      <4> QED
        BY <4>1, <2>0, <1>2, <3>1 DEF SignedBefore
    <3> QED
      BY <3>1
  <2> QED
    BY <2>0, <2>1, <2>2, <2>3, <2>4, <1>2 DEF IssuedOK
<1>6. \A i, j \in issued' : i.key = j.key => i = j
  BY <1>1, <1>2, <1>3 DEF Issuance
<1>7. \A i \in issued' : IssuedOK(i)'
  <2> SUFFICES ASSUME NEW i \in issued' PROVE IssuedOK(i)'
    OBVIOUS
  <2>1. i \in issued \/ i = n
    BY <1>1
  <2> QED
    BY <2>1, <1>4, <1>5
<1> QED
  BY <1>1, <1>6, <1>7 DEF Issuance

THEOREM IssuanceInvariant == TlsSpec => []Issuance
<1>1. TlsInit => Issuance
  BY DEF TlsInit, Issuance
<1>2. Issuance /\ [TlsNext]_tlsVars => Issuance'
  <2> SUFFICES ASSUME Issuance, [TlsNext]_tlsVars PROVE Issuance'
    OBVIOUS
  <2>1. ASSUME NEW r \in Requests, NewCA(r) PROVE Issuance'
    <3> DEFINE b == Request(r.Subject, Nil, Nil, Nil)
    <3>1. r.Subject \in STRING
      BY TlsAssumption DEF RequestType
    <3>2. b \in RequestType
      BY <3>1, NilSlice DEF Request, RequestType
    <3>3. Signer(CertParams(b, None, None), keys + 1) = keys + 1
      BY DEF Signer, CertParams
    <3> HIDE DEF b
    <3>4. Issue(Certificate(b, keys + 1, keys + 1, TRUE), CertParams(b, None, None))
      BY <2>1 DEF NewCA, b
    <3> QED
      BY <3>2, <3>3, <3>4, IssuePreserves
  <2>2. ASSUME NEW r \in Requests, NEW p \in Wanted(r), NewCert(p) PROVE Issuance'
    <3>1. r \in RequestType
      BY TlsAssumption
    <3>2. PICK sk, sc : /\ p = CertParams(r, sk, sc)
                        /\ \/ sk = None /\ sc = None
                           \/ \E k \in issued : sk = k.key /\ sc = k.cert
      BY DEF Wanted
    <3>3. p.request = r
      BY <3>2 DEF CertParams
    <3>4. Issue(Certificate(r, keys + 1, Signer(p, keys + 1), FALSE), p)
      BY <2>2, <3>3 DEF NewCert
    <3> QED
      BY <3>1, <3>2, <3>4, IssuePreserves
  <2>3. ASSUME UNCHANGED tlsVars PROVE Issuance'
    BY <2>3 DEF tlsVars, Issuance, IssuedOK, SignedBefore
  <2> QED
    BY <2>1, <2>2, <2>3 DEF TlsNext
<1> QED
  BY <1>1, <1>2, PTL DEF TlsSpec

------------------------------------------------------------------------------
(* What CertMatchesParams compares *)

LEMMA IssuedType ==
  ASSUME Issuance, NEW i \in issued
  PROVE  /\ i.key \in Nat /\ i.key # None
         /\ i.params.request \in RequestType
         /\ i.cert \in Certificates /\ i.cert # None
<1> DEFINE r == i.params.request
<1>1. \A k \in issued : k.key \in Nat /\ k.key # None
  <2>1. \A k \in issued : k.key \in 1..keys /\ keys \in Nat
    BY DEF IssuedOK, Issuance
  <2> QED
    BY <2>1, TlsAssumption
<1>2. IssuedOK(i)
  BY DEF Issuance
<1>3. r \in RequestType
  BY <1>2 DEF IssuedOK
<1>4. Signer(i.params, i.key) \in Nat
  BY <1>1, <1>2 DEF IssuedOK, SignedBefore, Signer
<1>5. /\ Parsed(r.DNSNames) \in Slice(STRING) /\ Parsed(r.ExtKeyUsage) \in Slice(STRING)
      /\ ParsedIPs(r.IPAddresses) \in Slice(Addresses)
  <2>1. /\ r.DNSNames \in Slice(STRING) /\ r.ExtKeyUsage \in Slice(STRING)
        /\ r.IPAddresses \in Slice(Addresses)
    BY <1>3 DEF RequestType
  <2> QED
    BY <2>1, ParsedSlice, ParsedAddresses
<1>6. r.Subject \in STRING
  BY <1>3 DEF RequestType
<1>7. i.cert.IsCA \in BOOLEAN /\ i.cert = Certificate(r, i.key, Signer(i.params, i.key), i.cert.IsCA)
  BY <1>2 DEF IssuedOK
<1> HIDE DEF r
<1>8. i.cert \in Certificates
  BY <1>1, <1>4, <1>5, <1>6, <1>7 DEF Certificate, Certificates
<1> QED
  BY <1>1, <1>3, <1>8, TlsAssumption DEF r

(* The signer of a certificate is told by its signature: the certificate's *)
(* own key if it signed itself, an older one if not.                       *)
LEMMA IssuedFields ==
  ASSUME Issuance, NEW i \in issued
  PROVE  /\ i.cert.PublicKey = i.key
         /\ i.cert.Subject = i.params.request.Subject
         /\ i.cert.DNSNames = Parsed(i.params.request.DNSNames)
         /\ i.cert.IPAddresses = ParsedIPs(i.params.request.IPAddresses)
         /\ i.cert.ExtKeyUsage = Parsed(i.params.request.ExtKeyUsage)
         /\ i.params.SigningCert = None => i.cert.Signature = i.key
         /\ i.params.SigningCert # None =>
              \E k \in issued :
                /\ k.key < i.key /\ i.cert.Signature = k.key
                /\ i.params.SigningCert = k.cert
<1> DEFINE r == i.params.request
<1>1. IssuedOK(i)
  BY DEF Issuance
<1>2. i.cert = [Subject |-> r.Subject, DNSNames |-> Parsed(r.DNSNames),
                IPAddresses |-> ParsedIPs(r.IPAddresses), ExtKeyUsage |-> Parsed(r.ExtKeyUsage),
                PublicKey |-> i.key, Signature |-> Signer(i.params, i.key), IsCA |-> i.cert.IsCA]
  BY <1>1 DEF IssuedOK, Certificate
<1>3. \A k \in issued : k.key # None /\ k.cert # None
  BY IssuedType
<1>4. /\ i.cert.PublicKey = i.key
      /\ i.cert.Subject = r.Subject
      /\ i.cert.DNSNames = Parsed(r.DNSNames)
      /\ i.cert.IPAddresses = ParsedIPs(r.IPAddresses)
      /\ i.cert.ExtKeyUsage = Parsed(r.ExtKeyUsage)
      /\ i.cert.Signature = Signer(i.params, i.key)
  BY <1>2
<1>5. CASE i.params.SigningKey = None /\ i.params.SigningCert = None
  BY <1>4, <1>5 DEF Signer
<1>6. CASE SignedBefore(i)
  <2>1. PICK k \in issued :
          k.key < i.key /\ i.params.SigningKey = k.key /\ i.params.SigningCert = k.cert
    BY <1>6 DEF SignedBefore
  <2>2. Signer(i.params, i.key) = k.key /\ i.params.SigningCert # None
    BY <2>1, <1>3 DEF Signer
  <2> QED
    BY <2>1, <2>2, <1>4
<1> QED
  BY <1>1, <1>5, <1>6 DEF IssuedOK

LEMMA MatchingRequest ==
  ASSUME Issuance, NEW i \in issued, NEW q, q.request \in RequestType
  PROVE  /\ i.cert.Subject = q.request.Subject
         /\ i.cert.DNSNames = q.request.DNSNames
         /\ netIPsEqual(i.cert.IPAddresses, q.request.IPAddresses)
         /\ i.cert.ExtKeyUsage = q.request.ExtKeyUsage
         <=> Alike(i.params, q) /\ NilIfEmpty(q.request)
<1> DEFINE r == i.params.request
           w == q.request
<1>1. r \in RequestType
  BY IssuedType
<1>2. /\ r.DNSNames \in Slice(STRING) /\ w.DNSNames \in Slice(STRING)
      /\ r.ExtKeyUsage \in Slice(STRING) /\ w.ExtKeyUsage \in Slice(STRING)
      /\ r.IPAddresses \in Slice(Addresses) /\ w.IPAddresses \in Slice(Addresses)
  BY <1>1 DEF RequestType
<1> HIDE DEF r, w
<1>3. Parsed(r.DNSNames) = w.DNSNames
        <=> r.DNSNames.list = w.DNSNames.list /\ (w.DNSNames.list = <<>> => w.DNSNames.nil)
  BY <1>2, SameSlices
<1>4. Parsed(r.ExtKeyUsage) = w.ExtKeyUsage
        <=> r.ExtKeyUsage.list = w.ExtKeyUsage.list
              /\ (w.ExtKeyUsage.list = <<>> => w.ExtKeyUsage.nil)
  BY <1>2, SameSlices
<1>5. netIPsEqual(ParsedIPs(r.IPAddresses), w.IPAddresses)
        <=> Hosts(r.IPAddresses) = Hosts(w.IPAddresses)
  BY <1>2, SameHosts
<1>6. /\ i.cert.Subject = r.Subject
      /\ i.cert.DNSNames = Parsed(r.DNSNames)
      /\ i.cert.IPAddresses = ParsedIPs(r.IPAddresses)
      /\ i.cert.ExtKeyUsage = Parsed(r.ExtKeyUsage)
  BY IssuedFields DEF r
<1>7. Alike(i.params, q) <=>
        /\ r.Subject = w.Subject
        /\ r.DNSNames.list = w.DNSNames.list
        /\ Hosts(r.IPAddresses) = Hosts(w.IPAddresses)
        /\ r.ExtKeyUsage.list = w.ExtKeyUsage.list
  BY DEF Alike, r, w
<1>8. NilIfEmpty(w) <=>
        /\ w.DNSNames.list = <<>> => w.DNSNames.nil
        /\ w.ExtKeyUsage.list = <<>> => w.ExtKeyUsage.nil
  BY DEF NilIfEmpty
<1>9. w = q.request
  BY DEF w
<1> QED
  BY <1>3, <1>4, <1>5, <1>6, <1>7, <1>8, <1>9

LEMMA MatchingSigner ==
  ASSUME Issuance, NEW i \in issued, NEW q,
         q.SigningCert = None \/ \E k \in issued : q.SigningCert = k.cert
  PROVE  (IF q.SigningCert # None THEN CheckSignatureFrom(i.cert, q.SigningCert)
                                  ELSE CheckSignature(i.cert, i.cert.PublicKey))
         <=> SignedAsWanted(i, q) /\ Sound(q)
<1>1. /\ \A k \in issued : k.key \in Nat /\ k.cert # None /\ k.cert.PublicKey = k.key
      /\ \A k, l \in issued : k.key = l.key => k = l
  BY IssuedType, IssuedFields DEF Issuance
<1>2. i.params.SigningCert = None => i.cert.Signature = i.key
  BY IssuedFields
<1>3. ASSUME i.params.SigningCert # None
      PROVE  \E k \in issued : /\ k.key < i.key /\ i.cert.Signature = k.key
                               /\ i.params.SigningCert = k.cert
  BY <1>3, IssuedFields
<1>4. CASE q.SigningCert = None
  <2>1. CheckSignature(i.cert, i.cert.PublicKey) <=> i.params.SigningCert = None
    BY <1>1, <1>2, <1>3 DEF CheckSignature
  <2>2. SignedAsWanted(i, q) <=> i.params.SigningCert = None
    BY <1>4 DEF SignedAsWanted
  <2> QED
    BY <2>1, <2>2, <1>4 DEF Sound
<1>5. CASE q.SigningCert # None
  <2>1. PICK k \in issued : q.SigningCert = k.cert
    BY <1>5
  <2>2. CheckSignatureFrom(i.cert, q.SigningCert) <=> Sound(q) /\ i.cert.Signature = k.key
    BY <2>1, <1>1, <1>5 DEF CheckSignatureFrom, CheckSignature, Sound
  <2>3. i.cert.Signature = k.key <=> SignedAsWanted(i, q)
    <3>1. CASE i.params.SigningCert = None
      <4>1. SignedAsWanted(i, q) <=> q.SigningCert = i.cert
        BY <3>1, <1>5 DEF SignedAsWanted
      <4> QED
        BY <4>1, <3>1, <2>1, <1>1, <1>2
    <3>2. CASE i.params.SigningCert # None
      <4>1. SignedAsWanted(i, q) <=> q.SigningCert = i.params.SigningCert
        BY <3>2 DEF SignedAsWanted
      <4> QED
        BY <4>1, <3>2, <2>1, <1>1, <1>3
    <3> QED
      BY <3>1, <3>2
  <2> QED
    BY <2>2, <2>3, <1>5
<1> QED
  BY <1>4, <1>5

(* A certificate matches exactly the params it fits, whatever was issued   *)
(* before it and after it (tls.go 113-145).                                *)
THEOREM OnlyItsParams == TlsSpec => []MatchesItsParamsOnly
<1>1. Issuance => MatchesItsParamsOnly
  <2> SUFFICES ASSUME Issuance, NEW i \in issued, NEW j \in issued,
                      NEW r \in Requests, NEW q \in Wanted(r) \cup {i.params}
               PROVE  CertMatchesParams(j.key, i.cert, q)
                        <=> /\ i = j /\ Alike(i.params, q) /\ SignedAsWanted(i, q)
                            /\ Sound(q) /\ NilIfEmpty(q.request)
    BY DEF MatchesItsParamsOnly
  <2>1. /\ q.request \in RequestType
        /\ q.SigningCert = None \/ \E k \in issued : q.SigningCert = k.cert
    <3>1. CASE q \in Wanted(r)
      BY <3>1, TlsAssumption DEF Wanted, CertParams
    <3>2. CASE q = i.params
      BY <3>2, IssuedType, IssuedFields
    <3> QED
      BY <3>1, <3>2
  <2>2. j.key # None /\ i.cert # None /\ (j.key = i.cert.PublicKey <=> i = j)
    BY IssuedType, IssuedFields DEF Issuance
  <2>3. CertMatchesParams(j.key, i.cert, q) <=>
          /\ i = j
          /\ /\ i.cert.Subject = q.request.Subject
             /\ i.cert.DNSNames = q.request.DNSNames
             /\ netIPsEqual(i.cert.IPAddresses, q.request.IPAddresses)
             /\ i.cert.ExtKeyUsage = q.request.ExtKeyUsage
          /\ IF q.SigningCert # None THEN CheckSignatureFrom(i.cert, q.SigningCert)
                                     ELSE CheckSignature(i.cert, i.cert.PublicKey)
    BY <2>2 DEF CertMatchesParams
  <2> QED
    BY <2>1, <2>3, MatchingRequest, MatchingSigner
<1> QED
  BY <1>1, IssuanceInvariant, PTL

------------------------------------------------------------------------------
(* PEM texts *)

(* The blocks a text can have.                                             *)
Bodies == Certs \cup Keys \cup {Broken, Elliptic}
Blocks ==
  {Block("CERTIFICATE", c) : c \in Certs} \cup {Block("RSA PRIVATE KEY", k) : k \in Keys}
    \cup {Block("PUBLIC KEY", k) : k \in Keys} \cup ForeignBlocks
PemOK == pem \in Seq(Blocks)

LEMMA BlockFacts ==
  ASSUME NEW b \in Blocks
  PROVE  /\ b = Block(b.Type, b.Bytes) /\ b.Bytes \in Bodies
         /\ b.Type = "CERTIFICATE" => b.Bytes \in Certs \cup {Broken}
         /\ b.Type = "RSA PRIVATE KEY" => b.Bytes \in Keys \cup {Broken}
         /\ b.Type = "PRIVATE KEY" => b.Bytes \in Keys \cup {Broken, Elliptic}
         /\ b.Bytes = Elliptic => b.Type = "PRIVATE KEY"
<1>1. PICK type, body :
        /\ b = Block(type, body)
        /\ \/ type = "CERTIFICATE" /\ body \in Certs \cup {Broken}
           \/ type \in {"RSA PRIVATE KEY", "PRIVATE KEY"} /\ body \in Keys \cup {Broken}
           \/ type = "PUBLIC KEY" /\ body \in Keys
           \/ type = "EC PARAMETERS" /\ body = Broken
           \/ type = "PRIVATE KEY" /\ body = Elliptic
  BY DEF Blocks, ForeignBlocks
<1>2. b.Type = type /\ b.Bytes = body
  BY <1>1 DEF Block
<1>3. Elliptic \notin Certs \cup Keys \cup {Broken}
  <2>1. Elliptic # Broken
    BY DEF Elliptic, Broken
  <2> QED
    BY <2>1, PemAssumption
<1> QED
  BY <1>1, <1>2, <1>3 DEF Bodies

(* Whatever is appended, a text stays one of such blocks.                  *)
LEMMA Encoded ==
  ASSUME PemOK, NEW type, NEW bodies, NEW S, bodies \in Seq(S \cup {NilPointer}),
         \A c \in S : Block(type, c) \in Blocks,
         EncodeBlocks(type, bodies)
  PROVE  PemOK'
<1>1. CASE NilPointer \in ToSet(bodies)
  BY <1>1 DEF EncodeBlocks, PemOK
<1>2. CASE NilPointer \notin ToSet(bodies)
  <2> DEFINE added == [i \in DOMAIN bodies |-> Block(type, bodies[i])]
  <2>1. DOMAIN bodies = 1..Len(bodies) /\ Len(bodies) \in Nat
    BY LenProperties
  <2>2. ASSUME NEW i \in 1..Len(bodies) PROVE bodies[i] \in S
    <3>1. bodies[i] \in S \cup {NilPointer}
      BY ElementOfSeq
    <3>2. bodies[i] \in ToSet(bodies)
      BY <2>1 DEF ToSet
    <3> QED
      BY <3>1, <3>2, <1>2
  <2>3. added \in Seq(Blocks)
    <3>1. \A i \in 1..Len(bodies) : Block(type, bodies[i]) \in Blocks
      BY <2>2
    <3>2. added = [i \in 1..Len(bodies) |-> Block(type, bodies[i])]
      BY <2>1
    <3>3. added \in [1..Len(bodies) -> Blocks]
      BY <3>1, <3>2
    <3> HIDE DEF added
    <3> QED
      BY <3>3, <2>1, SeqDef
  <2> HIDE DEF added
  <2>4. pem \o added \in Seq(Blocks)
    BY <2>3, ConcatProperties DEF PemOK
  <2>5. pem' = pem \o added
    BY <1>2 DEF EncodeBlocks, added
  <2> QED
    BY <2>4, <2>5 DEF PemOK
<1> QED
  BY <1>1, <1>2

LEMMA TextsHaveBlocks == PemSpec => []PemOK
<1>1. PemInit => PemOK
  BY EmptySeq DEF PemInit, PemOK
<1>2. PemOK /\ [PemNext]_pem => PemOK'
  <2> SUFFICES ASSUME PemOK, [PemNext]_pem PROVE PemOK'
    OBVIOUS
  <2>1. CASE UNCHANGED pem
    BY <2>1 DEF PemOK
  <2>2. ASSUME NEW n \in 0..2, NEW cs \in [1..n -> Certs \cup {NilPointer}], CertChainAsBytes(cs)
        PROVE  PemOK'
    <3>1. cs \in Seq(Certs \cup {NilPointer})
      BY SeqDef
    <3>2. \A c \in Certs : Block("CERTIFICATE", c) \in Blocks
      BY DEF Blocks
    <3> QED
      BY <2>2, <3>1, <3>2, Encoded DEF CertChainAsBytes
  <2>3. ASSUME NEW k \in Keys \cup {NilPointer}, PrivateKeyAsBytes(k) \/ PublicKeyAsBytes(k)
        PROVE  PemOK'
    <3>1. <<k>> \in Seq(Keys \cup {NilPointer})
      OBVIOUS
    <3>2. \A c \in Keys : Block("RSA PRIVATE KEY", c) \in Blocks /\ Block("PUBLIC KEY", c) \in Blocks
      BY DEF Blocks
    <3> QED
      BY <2>3, <3>1, <3>2, Encoded DEF PrivateKeyAsBytes, PublicKeyAsBytes
  <2>4. CASE Foreign
    <3>1. PICK b \in ForeignBlocks : pem' = Append(pem, b)
      BY <2>4 DEF Foreign
    <3>2. b \in Blocks
      BY DEF Blocks
    <3> QED
      BY <3>1, <3>2, AppendProperties DEF PemOK
  <2> QED
    BY <2>1, <2>2, <2>3, <2>4 DEF PemNext
<1> QED
  BY <1>1, <1>2, PTL DEF PemSpec

------------------------------------------------------------------------------
(* Reading block by block *)

(* Induction, said with a set.                                             *)
LEMMA UpTo ==
  ASSUME NEW N \in Nat, NEW S, 0 \in S,
         \A n \in 1..N : n - 1 \in S => n \in S
  PROVE  \A n \in 0..N : n \in S
<1> SUFFICES ASSUME {n \in 0..N : n \notin S} # {} PROVE FALSE
  OBVIOUS
<1> DEFINE T == {n \in 0..N : n \notin S}
           R == {ss \in Nat \X Nat : ss[1] < ss[2]}
<1>1. IsWellFoundedOn(R, Nat)
  BY NatLessThanWellFounded DEF OpToRel
<1>2. T \subseteq Nat /\ T # {}
  OBVIOUS
<1> HIDE DEF R
<1>3. PICK m \in T : \A n \in T : ~ (<<n, m>> \in R)
  BY <1>1, <1>2, WFMin
<1>4. \A n \in T : ~ (n < m)
  BY <1>2, <1>3 DEF R
<1>5. m \in 1..N
  BY <1>3
<1>6. m - 1 \in 0..N /\ m - 1 < m
  BY <1>5
<1>7. m - 1 \in S
  BY <1>4, <1>6
<1> QED
  BY <1>3, <1>5, <1>7

(* A recursive function on 0..N exists, whatever its step F is.            *)
Steps(N, V, start, F, f) ==
  f \in [0..N -> V] /\ f[0] = start /\ \A n \in 1..N : f[n] = F[n][f[n - 1]]

LEMMA StepsExist ==
  ASSUME NEW N \in Nat, NEW V, NEW start \in V, NEW F \in [1..N -> [V -> V]]
  PROVE  \E f : Steps(N, V, start, F, f)
<1> DEFINE S == {m \in 0..N : \E f : Steps(m, V, start, F, f)}
<1>1. 0 \in S
  <2> DEFINE f == [n \in 0..0 |-> start]
  <2>1. Steps(0, V, start, F, f)
    BY DEF Steps
  <2> QED
    BY <2>1
<1>2. ASSUME NEW n \in 1..N, n - 1 \in S PROVE n \in S
  <2>1. PICK f : Steps(n - 1, V, start, F, f)
    BY <1>2
  <2> DEFINE g == [j \in 0..n |-> IF j = n THEN F[n][f[n - 1]] ELSE f[j]]
  <2>2. f[n - 1] \in V
    BY <2>1 DEF Steps
  <2>3. F[n][f[n - 1]] \in V
    BY <2>2
  <2>4. g \in [0..n -> V] /\ g[0] = start
    BY <2>1, <2>3 DEF Steps
  <2>5. ASSUME NEW j \in 1..n PROVE g[j] = F[j][g[j - 1]]
    <3>1. CASE j = n
      BY <3>1
    <3>2. CASE j # n
      <4>1. j \in 1..n - 1 /\ j - 1 \in 0..n - 1
        BY <3>2
      <4>2. f[j] = F[j][f[j - 1]]
        BY <4>1, <2>1 DEF Steps
      <4> QED
        BY <4>1, <4>2, <3>2
    <3> QED
      BY <3>1, <3>2
  <2>6. Steps(n, V, start, F, g)
    BY <2>4, <2>5 DEF Steps
  <2> QED
    BY <2>6
<1> HIDE DEF S
<1>3. \A n \in 0..N : n \in S
  BY <1>1, <1>2, UpTo
<1> QED
  BY <1>3 DEF S

(* The chain read from the first blocks, from one more and from all.       *)
ReadChain(r, b) ==
  IF r.err \/ b.Type # "CERTIFICATE" THEN r
  ELSE IF b.Bytes = Broken THEN [err |-> TRUE, certs |-> <<>>]
  ELSE [err |-> FALSE, certs |-> Append(r.certs, b.Bytes)]
Chains == [err : BOOLEAN, certs : Seq(Certs)]
ChainSteps(blocks, read) ==
  /\ read \in [0..Len(blocks) -> Chains]
  /\ read[0] = [err |-> FALSE, certs |-> <<>>]
  /\ \A n \in 1..Len(blocks) : read[n] = ReadChain(read[n - 1], blocks[n])
  /\ ParseCertChain(blocks) = read[Len(blocks)]

LEMMA ChainIsRead ==
  ASSUME NEW blocks \in Seq(Blocks)
  PROVE  \E read : ChainSteps(blocks, read)
<1> DEFINE N == Len(blocks)
           start == [err |-> FALSE, certs |-> <<>>]
           Recurs(f) == f = [n \in 0..N |-> IF n = 0 THEN start ELSE ReadChain(f[n - 1], blocks[n])]
           F == [n \in 1..N |-> [r \in Chains |-> ReadChain(r, blocks[n])]]
           read == CHOOSE f : Recurs(f)
<1>1. ParseCertChain(blocks) = read[N]
  BY DEF ParseCertChain, ReadChain
<1>2. N \in Nat /\ start \in Chains
  BY LenProperties, EmptySeq DEF Chains
<1>3. ASSUME NEW r \in Chains, NEW n \in 1..N PROVE ReadChain(r, blocks[n]) \in Chains
  <2> DEFINE b == blocks[n]
  <2>1. b \in Blocks
    BY ElementOfSeq
  <2>2. b.Type = "CERTIFICATE" /\ b.Bytes # Broken => b.Bytes \in Certs
    BY <2>1, BlockFacts
  <2> HIDE DEF b
  <2>3. b.Bytes \in Certs => Append(r.certs, b.Bytes) \in Seq(Certs)
    BY AppendProperties DEF Chains
  <2>4. ReadChain(r, b) \in Chains
    BY <2>2, <2>3, EmptySeq DEF ReadChain, Chains
  <2> QED
    BY <2>4 DEF b
<1> HIDE DEF N, start, read
<1>4. F \in [1..N -> [Chains -> Chains]]
  BY <1>3
<1>5. PICK f : Steps(N, Chains, start, F, f)
  <2> HIDE DEF F
  <2> QED
    BY <1>2, <1>4, StepsExist
<1>6. \A n \in 1..N : f[n - 1] \in Chains /\ f[n] = ReadChain(f[n - 1], blocks[n])
  <2> TAKE n \in 1..N
  <2>1. n - 1 \in 0..N /\ f[n - 1] \in Chains /\ f[n] = F[n][f[n - 1]]
    BY <1>2, <1>5 DEF Steps
  <2> QED
    BY <2>1
<1>7. f \in [0..N -> Chains] /\ f[0] = start
  BY <1>5 DEF Steps
<1>8. Recurs(f)
  BY <1>6, <1>7
<1>9. Recurs(read)
  BY <1>8 DEF read
<1>10. f = read
  <2> DEFINE S == {n \in 0..N : f[n] = read[n]}
  <2>1. 0 \in S
    BY <1>2, <1>7, <1>9
  <2>2. ASSUME NEW n \in 1..N, n - 1 \in S PROVE n \in S
    BY <1>6, <1>9, <2>2
  <2> HIDE DEF S
  <2>3. \A n \in 0..N : n \in S
    BY <1>2, <2>1, <2>2, UpTo
  <2>4. \A n \in 0..N : f[n] = read[n]
    BY <2>3 DEF S
  <2> QED
    BY <1>7, <1>9, <2>4
<1>11. ChainSteps(blocks, read)
  BY <1>1, <1>6, <1>7, <1>10 DEF ChainSteps, N, start
<1> QED
  BY <1>11

------------------------------------------------------------------------------
(* Chains *)

Standing(blocks, n) == {i \in 1..n : blocks[i].Type = "CERTIFICATE"}
Breaks(blocks, n) == \E i \in 1..n : blocks[i] = Block("CERTIFICATE", Broken)

LEMMA StandingCount ==
  ASSUME NEW blocks, NEW n \in Nat
  PROVE  /\ IsFiniteSet(Standing(blocks, n))
         /\ Cardinality(Standing(blocks, n)) \in Nat
         /\ n # 0 => Cardinality(Standing(blocks, n)) =
              Cardinality(Standing(blocks, n - 1))
                + IF blocks[n].Type = "CERTIFICATE" THEN 1 ELSE 0
<1>1. \A m \in Nat : IsFiniteSet(Standing(blocks, m)) /\ Cardinality(Standing(blocks, m)) \in Nat
  <2> TAKE m \in Nat
  <2>1. IsFiniteSet(1..m)
    BY FS_Interval
  <2>2. Standing(blocks, m) \in SUBSET (1..m)
    BY DEF Standing
  <2> QED
    BY <2>1, <2>2, FS_Subset, FS_CardinalityType
<1>2. ASSUME n # 0
      PROVE  Cardinality(Standing(blocks, n)) =
              Cardinality(Standing(blocks, n - 1))
                + IF blocks[n].Type = "CERTIFICATE" THEN 1 ELSE 0
  <2>1. n - 1 \in Nat /\ \A i : i \in 1..n <=> i \in 1..n - 1 \/ i = n
    BY <1>2
  <2>2. CASE blocks[n].Type = "CERTIFICATE"
    <3>1. Standing(blocks, n) = Standing(blocks, n - 1) \cup {n} /\ n \notin Standing(blocks, n - 1)
      BY <2>1, <2>2 DEF Standing
    <3>2. Cardinality(Standing(blocks, n - 1) \cup {n}) = Cardinality(Standing(blocks, n - 1)) + 1
      BY <1>1, <2>1, <3>1, FS_AddElement
    <3> QED
      BY <2>2, <3>1, <3>2
  <2>3. CASE blocks[n].Type # "CERTIFICATE"
    <3>1. Standing(blocks, n) = Standing(blocks, n - 1)
      BY <2>1, <2>3 DEF Standing
    <3> QED
      BY <1>1, <2>1, <2>3, <3>1
  <2> QED
    BY <2>2, <2>3
<1> QED
  BY <1>1, <1>2

(* The certificates before a place are no more than those before a later   *)
(* one, and fewer than those up to it if one stands there.                 *)
LEMMA StandingGrows ==
  ASSUME NEW blocks, NEW n \in Nat, NEW m \in 0..n
  PROVE  Cardinality(Standing(blocks, m)) <= Cardinality(Standing(blocks, n))
<1>1. Standing(blocks, m) \in SUBSET Standing(blocks, n)
  BY DEF Standing
<1> QED
  BY <1>1, StandingCount, FS_Subset

(* What has been read from the first n blocks.                             *)
ReadOK(blocks, read, n) ==
  /\ read[n].err <=> Breaks(blocks, n)
  /\ ~Breaks(blocks, n) =>
       /\ Len(read[n].certs) = Cardinality(Standing(blocks, n))
       /\ \A i \in Standing(blocks, n) :
            read[n].certs[Cardinality(Standing(blocks, i))] = blocks[i].Bytes

LEMMA ReadStep ==
  ASSUME NEW blocks \in Seq(Blocks), NEW read, ChainSteps(blocks, read),
         NEW n \in 1..Len(blocks), ReadOK(blocks, read, n - 1)
  PROVE  ReadOK(blocks, read, n)
<1> DEFINE r == read[n - 1]
           b == blocks[n]
           c == Cardinality(Standing(blocks, n - 1))
<1>1. Len(blocks) \in Nat /\ n \in Nat /\ n - 1 \in Nat /\ n - 1 \in 0..Len(blocks) /\ n # 0
  BY LenProperties
<1>2. /\ r \in Chains /\ read[n] = ReadChain(r, b) /\ b \in Blocks
      /\ r.err \in BOOLEAN /\ r.certs \in Seq(Certs)
  BY <1>1, ElementOfSeq DEF ChainSteps, Chains
<1>3. \A i : i \in 1..n <=> i \in 1..n - 1 \/ i = n
  BY <1>1
<1>4. b = Block("CERTIFICATE", Broken) <=> b.Type = "CERTIFICATE" /\ b.Bytes = Broken
  <2>1. b = Block(b.Type, b.Bytes)
    BY <1>2, BlockFacts
  <2> HIDE DEF b
  <2> QED
    BY <2>1 DEF Block
<1>5. Breaks(blocks, n) <=> Breaks(blocks, n - 1) \/ (b.Type = "CERTIFICATE" /\ b.Bytes = Broken)
  BY <1>3, <1>4 DEF Breaks
<1>6. r.err <=> Breaks(blocks, n - 1)
  BY DEF ReadOK
<1>7. /\ c \in Nat
      /\ Cardinality(Standing(blocks, n)) = c + IF b.Type = "CERTIFICATE" THEN 1 ELSE 0
  BY <1>1, StandingCount
<1>8. ~Breaks(blocks, n - 1) =>
        /\ Len(r.certs) = c
        /\ \A i \in Standing(blocks, n - 1) :
             r.certs[Cardinality(Standing(blocks, i))] = blocks[i].Bytes
  BY DEF ReadOK
<1>9. \A i : i \in Standing(blocks, n) <=>
        i \in Standing(blocks, n - 1) \/ (i = n /\ b.Type = "CERTIFICATE")
  BY <1>3 DEF Standing
<1>10. ASSUME NEW i \in Standing(blocks, n - 1)
       PROVE  Cardinality(Standing(blocks, i)) \in 1..c
  <2>1. i \in 1..n - 1 /\ i \in Nat /\ i # 0 /\ i \in 0..n - 1 /\ blocks[i].Type = "CERTIFICATE"
    BY <1>1 DEF Standing
  <2>2. Cardinality(Standing(blocks, i)) <= c
    BY <1>1, <2>1, StandingGrows
  <2>3. /\ Cardinality(Standing(blocks, i)) = Cardinality(Standing(blocks, i - 1)) + 1
        /\ Cardinality(Standing(blocks, i - 1)) \in Nat
    BY <2>1, StandingCount
  <2> QED
    BY <1>7, <2>2, <2>3
<1> HIDE DEF r, b, c
<1>11. CASE r.err \/ b.Type # "CERTIFICATE"
  <2>1. read[n] = r
    BY <1>2, <1>11 DEF ReadChain
  <2>2. CASE r.err
    BY <1>5, <1>6, <2>1, <2>2 DEF ReadOK
  <2>3. CASE b.Type # "CERTIFICATE" /\ ~r.err
    <3>1. ~Breaks(blocks, n - 1) /\ ~Breaks(blocks, n) /\ Cardinality(Standing(blocks, n)) = c
      BY <1>5, <1>6, <1>7, <2>3
    <3> QED
      BY <1>8, <1>9, <2>1, <2>3, <3>1 DEF ReadOK
  <2> QED
    BY <1>11, <2>2, <2>3
<1>12. CASE ~r.err /\ b.Type = "CERTIFICATE" /\ b.Bytes = Broken
  <2>1. read[n].err = TRUE
    BY <1>2, <1>12 DEF ReadChain
  <2> QED
    BY <1>5, <1>12, <2>1 DEF ReadOK
<1>13. CASE ~r.err /\ b.Type = "CERTIFICATE" /\ b.Bytes # Broken
  <2>1. read[n].err = FALSE /\ read[n].certs = Append(r.certs, b.Bytes)
    BY <1>2, <1>13 DEF ReadChain
  <2>2. ~Breaks(blocks, n - 1) /\ ~Breaks(blocks, n) /\ Cardinality(Standing(blocks, n)) = c + 1
    BY <1>5, <1>6, <1>7, <1>13
  <2>3. b.Bytes \in Certs
    BY <1>2, <1>13, BlockFacts
  <2>4. /\ Len(read[n].certs) = Len(r.certs) + 1
        /\ \A i \in 1..Len(r.certs) : read[n].certs[i] = r.certs[i]
        /\ read[n].certs[Len(r.certs) + 1] = b.Bytes
    BY <1>2, <2>1, <2>3, AppendProperties
  <2>5. ASSUME NEW i \in Standing(blocks, n)
        PROVE  read[n].certs[Cardinality(Standing(blocks, i))] = blocks[i].Bytes
    <3>1. CASE i \in Standing(blocks, n - 1)
      BY <3>1, <1>8, <1>10, <2>2, <2>4
    <3>2. CASE i = n
      BY <3>2, <1>8, <2>2, <2>4 DEF b
    <3> QED
      BY <1>9, <3>1, <3>2
  <2> QED
    BY <1>8, <2>1, <2>2, <2>4, <2>5 DEF ReadOK
<1> QED
  BY <1>11, <1>12, <1>13

LEMMA ChainsAreWhole ==
  ASSUME NEW blocks \in Seq(Blocks)
  PROVE  LET r == ParseCertChain(blocks)
             N == Len(blocks)
         IN  /\ r \in Chains
             /\ r.err <=> Breaks(blocks, N)
             /\ ~Breaks(blocks, N) =>
                  /\ Len(r.certs) = Cardinality(Standing(blocks, N))
                  /\ \A i \in Standing(blocks, N) :
                       r.certs[Cardinality(Standing(blocks, i))] = blocks[i].Bytes
<1> DEFINE N == Len(blocks)
<1>1. PICK read : ChainSteps(blocks, read)
  BY ChainIsRead
<1>2. N \in Nat
  BY LenProperties
<1> DEFINE S == {n \in 0..N : ReadOK(blocks, read, n)}
<1>3. 0 \in S
  <2>1. read[0].err = FALSE /\ read[0].certs = <<>>
    BY <1>1 DEF ChainSteps
  <2>2. ~Breaks(blocks, 0) /\ Standing(blocks, 0) = {}
    BY DEF Breaks, Standing
  <2>3. Cardinality({}) = 0 /\ Len(<<>>) = 0
    BY FS_EmptySet
  <2>4. ReadOK(blocks, read, 0)
    BY <2>1, <2>2, <2>3 DEF ReadOK
  <2> QED
    BY <1>2, <2>4
<1>4. ASSUME NEW n \in 1..N, n - 1 \in S PROVE n \in S
  BY <1>1, <1>4, ReadStep
<1> HIDE DEF S
<1>5. \A n \in 0..N : n \in S
  BY <1>2, <1>3, <1>4, UpTo
<1>6. ReadOK(blocks, read, N)
  BY <1>2, <1>5 DEF S
<1>7. ParseCertChain(blocks) = read[N] /\ read[N] \in Chains
  BY <1>1, <1>2 DEF ChainSteps
<1> QED
  BY <1>6, <1>7 DEF ReadOK

LEMMA Whole == PemOK => WholeOrNothing
<1> SUFFICES ASSUME PemOK PROVE WholeOrNothing
  OBVIOUS
<1> DEFINE N == Len(pem)
           r == ParseCertChain(pem)
           standing == {i \in DOMAIN pem : pem[i].Type = "CERTIFICATE"}
           broken == \E i \in DOMAIN pem : pem[i] = Block("CERTIFICATE", Broken)
<1>1. DOMAIN pem = 1..N /\ N \in Nat
  BY LenProperties DEF PemOK
<1>2. /\ r \in Chains
      /\ r.err <=> Breaks(pem, N)
      /\ ~Breaks(pem, N) =>
           /\ Len(r.certs) = Cardinality(Standing(pem, N))
           /\ \A i \in Standing(pem, N) : r.certs[Cardinality(Standing(pem, i))] = pem[i].Bytes
  BY ChainsAreWhole DEF PemOK
<1>3. broken <=> Breaks(pem, N)
  BY <1>1 DEF Breaks
<1>4. standing = Standing(pem, N)
  BY <1>1 DEF Standing
<1>5. ASSUME NEW i \in standing PROVE {j \in standing : j <= i} = Standing(pem, i)
  BY <1>1 DEF Standing
<1> HIDE DEF r, N
<1>6. ~broken => /\ Len(r.certs) = Cardinality(standing)
                 /\ \A i \in standing :
                      r.certs[Cardinality({j \in standing : j <= i})] = pem[i].Bytes
  BY <1>2, <1>3, <1>4, <1>5
<1>7. ParseCert(pem) # Error => ~broken /\ standing # {}
  <2>1. ParseCert(pem) = IF r.err \/ r.certs = <<>> THEN Error ELSE Head(r.certs)
    BY DEF ParseCert, r
  <2>2. SUFFICES ASSUME ~r.err, r.certs # <<>> PROVE ~broken /\ standing # {}
    BY <2>1
  <2>3. ~broken
    BY <1>2, <1>3, <2>2
  <2>4. Len(r.certs) # 0
    BY <1>2, <2>2, EmptySeq DEF Chains
  <2>5. standing # {}
    BY <1>6, <2>3, <2>4, FS_EmptySet
  <2> QED
    BY <2>3, <2>5
<1>8. r.err <=> broken
  BY <1>2, <1>3
<1> QED
  BY <1>6, <1>7, <1>8 DEF WholeOrNothing, r

------------------------------------------------------------------------------
(* Each certificate once *)

Keep(kept, c) == IF c \in ToSet(kept) THEN kept ELSE Append(kept, c)
KeepSteps(certs, kept) ==
  /\ kept \in [0..Len(certs) -> Seq(Certs)]
  /\ kept[0] = <<>>
  /\ \A n \in 1..Len(certs) : kept[n] = Keep(kept[n - 1], certs[n])
  /\ UniqueCert(certs) = kept[Len(certs)]

LEMMA UniqueIsKept ==
  ASSUME NEW certs \in Seq(Certs)
  PROVE  \E kept : KeepSteps(certs, kept)
<1> DEFINE N == Len(certs)
           V == Seq(Certs)
           Recurs(f) == f = [n \in 0..N |-> IF n = 0 THEN <<>> ELSE Keep(f[n - 1], certs[n])]
           F == [n \in 1..N |-> [r \in V |-> Keep(r, certs[n])]]
           kept == CHOOSE f : Recurs(f)
<1>1. UniqueCert(certs) = kept[N]
  BY DEF UniqueCert, Keep
<1>2. N \in Nat /\ <<>> \in V
  BY LenProperties, EmptySeq
<1>3. ASSUME NEW r \in V, NEW n \in 1..N PROVE Keep(r, certs[n]) \in V
  <2>1. certs[n] \in Certs
    BY ElementOfSeq
  <2> QED
    BY <2>1, AppendProperties DEF Keep
<1> HIDE DEF N, V, kept
<1>4. F \in [1..N -> [V -> V]]
  BY <1>3
<1>5. PICK f : Steps(N, V, <<>>, F, f)
  <2> HIDE DEF F
  <2> QED
    BY <1>2, <1>4, StepsExist
<1>6. \A n \in 1..N : f[n - 1] \in V /\ f[n] = Keep(f[n - 1], certs[n])
  <2> TAKE n \in 1..N
  <2>1. n - 1 \in 0..N /\ f[n - 1] \in V /\ f[n] = F[n][f[n - 1]]
    BY <1>2, <1>5 DEF Steps
  <2> QED
    BY <2>1
<1>7. f \in [0..N -> V] /\ f[0] = <<>>
  BY <1>5 DEF Steps
<1>8. Recurs(f)
  BY <1>6, <1>7
<1>9. Recurs(kept)
  BY <1>8 DEF kept
<1>10. f = kept
  <2> DEFINE S == {n \in 0..N : f[n] = kept[n]}
  <2>1. 0 \in S
    BY <1>2, <1>7, <1>9
  <2>2. ASSUME NEW n \in 1..N, n - 1 \in S PROVE n \in S
    BY <1>6, <1>9, <2>2
  <2> HIDE DEF S
  <2>3. \A n \in 0..N : n \in S
    BY <1>2, <2>1, <2>2, UpTo
  <2>4. \A n \in 0..N : f[n] = kept[n]
    BY <2>3 DEF S
  <2> QED
    BY <1>7, <1>9, <2>4
<1>11. KeepSteps(certs, kept)
  BY <1>1, <1>6, <1>7, <1>10 DEF KeepSteps, N, V
<1> QED
  BY <1>11

(* The first place of a certificate.                                       *)
First(s, c, i) == i \in DOMAIN s /\ s[i] = c /\ \A j \in 1..i - 1 : s[j] # c
Place(s, c) == CHOOSE i \in DOMAIN s : s[i] = c /\ \A j \in 1..i - 1 : s[j] # c

LEMMA FirstIsPlace ==
  ASSUME NEW T, NEW s \in Seq(T), NEW c, NEW i, First(s, c, i)
  PROVE  Place(s, c) = i
<1>1. DOMAIN s = 1..Len(s) /\ Len(s) \in Nat
  BY LenProperties
<1>2. ASSUME NEW j \in DOMAIN s, s[j] = c, \A k \in 1..j - 1 : s[k] # c PROVE j = i
  <2>1. i \in Nat /\ j \in Nat /\ i > 0 /\ j > 0
    BY <1>1 DEF First
  <2>2. ~(i < j) /\ ~(j < i)
    BY <1>2, <2>1 DEF First
  <2> QED
    BY <2>1, <2>2
<1> QED
  BY <1>2 DEF First, Place

(* What is kept of the first n certificates, each at its first place.      *)
KeptOK(certs, kept, n) ==
  /\ \A c : c \in ToSet(kept[n]) <=> \E i \in 1..n : certs[i] = c
  /\ \A k \in DOMAIN kept[n] : \E i \in 1..n : First(certs, kept[n][k], i)
  /\ \A j, k \in DOMAIN kept[n] :
       j < k => \E a, b \in 1..n : a < b /\ First(certs, kept[n][j], a) /\ First(certs, kept[n][k], b)

LEMMA KeepStep ==
  ASSUME NEW certs \in Seq(Certs), NEW kept, KeepSteps(certs, kept),
         NEW n \in 1..Len(certs), KeptOK(certs, kept, n - 1)
  PROVE  KeptOK(certs, kept, n)
<1> DEFINE u == kept[n - 1]
           c == certs[n]
<1>1. /\ Len(certs) \in Nat /\ DOMAIN certs = 1..Len(certs)
      /\ n \in Nat /\ n - 1 \in Nat /\ n - 1 \in 0..Len(certs)
      /\ \A i : i \in 1..n <=> i \in 1..n - 1 \/ i = n
  BY LenProperties
<1>2. u \in Seq(Certs) /\ kept[n] = Keep(u, c) /\ c \in Certs
  BY <1>1, ElementOfSeq DEF KeepSteps
<1>3. /\ \A d : d \in ToSet(u) <=> \E i \in 1..n - 1 : certs[i] = d
      /\ \A k \in DOMAIN u : \E i \in 1..n - 1 : First(certs, u[k], i)
      /\ \A j, k \in DOMAIN u :
           j < k => \E a, b \in 1..n - 1 : a < b /\ First(certs, u[j], a) /\ First(certs, u[k], b)
  BY DEF KeptOK
<1>4. certs[n] = c
  OBVIOUS
<1> HIDE DEF u, c
<1>5. CASE c \in ToSet(u)
  <2>1. kept[n] = u
    BY <1>2, <1>5 DEF Keep
  <2>2. \E i \in 1..n - 1 : certs[i] = c
    BY <1>3, <1>5
  <2>3. \A d : d \in ToSet(u) <=> \E i \in 1..n : certs[i] = d
    BY <1>1, <1>3, <1>4, <2>2
  <2>4. 1..n - 1 \subseteq 1..n
    BY <1>1
  <2> QED
    BY <1>3, <2>1, <2>3, <2>4 DEF KeptOK
<1>6. CASE c \notin ToSet(u)
  <2> DEFINE v == Append(u, c)
             m == Len(u) + 1
  <2>1. kept[n] = v
    BY <1>2, <1>6 DEF Keep
  <2>2. /\ DOMAIN u = 1..Len(u) /\ Len(u) \in Nat
        /\ DOMAIN v = 1..m /\ v[m] = c
        /\ \A k \in DOMAIN u : v[k] = u[k]
    <3>1. v \in Seq(Certs) /\ Len(v) = m
      BY <1>2, AppendProperties
    <3> QED
      BY <3>1, <1>2, AppendProperties, LenProperties
  <2> HIDE DEF v
  <2>3. First(certs, c, n)
    <3>1. \A i \in 1..n - 1 : certs[i] # c
      BY <1>3, <1>6
    <3> QED
      BY <1>1, <1>4, <3>1 DEF First
  <2>4. \A k : k \in DOMAIN v <=> k \in DOMAIN u \/ k = m
    BY <2>2
  <2>5. \A d : d \in ToSet(v) <=> d \in ToSet(u) \/ d = c
    BY <2>2, <2>4 DEF ToSet
  <2>6. \A d : d \in ToSet(v) <=> \E i \in 1..n : certs[i] = d
    BY <1>1, <1>3, <1>4, <2>5
  <2>7. \A k \in DOMAIN v : \E i \in 1..n : First(certs, v[k], i)
    BY <1>1, <1>3, <2>2, <2>3, <2>4
  <2>8. ASSUME NEW j \in DOMAIN v, NEW k \in DOMAIN v, j < k
        PROVE  \E a, b \in 1..n : a < b /\ First(certs, v[j], a) /\ First(certs, v[k], b)
    <3>1. j \in DOMAIN u /\ v[j] = u[j]
      BY <2>2, <2>8
    <3>2. CASE k = m
      <4>1. PICK a \in 1..n - 1 : First(certs, v[j], a)
        BY <1>3, <3>1
      <4>2. v[k] = c /\ a < n /\ a \in 1..n /\ n \in 1..n
        BY <1>1, <2>2, <3>2
      <4> QED
        BY <2>3, <4>1, <4>2
    <3>3. CASE k \in DOMAIN u
      <4>1. v[k] = u[k]
        BY <2>2, <3>3
      <4>2. PICK a \in 1..n - 1, b \in 1..n - 1 :
              a < b /\ First(certs, u[j], a) /\ First(certs, u[k], b)
        BY <1>3, <2>8, <3>1, <3>3
      <4>3. a \in 1..n /\ b \in 1..n
        BY <1>1
      <4> QED
        BY <3>1, <4>1, <4>2, <4>3
    <3> QED
      BY <2>4, <3>2, <3>3
  <2> QED
    BY <2>1, <2>6, <2>7, <2>8 DEF KeptOK
<1> QED
  BY <1>5, <1>6

LEMMA UniqueKeepsFirsts ==
  ASSUME NEW certs \in Seq(Certs)
  PROVE  /\ ToSet(UniqueCert(certs)) = ToSet(certs)
         /\ \A i, j \in DOMAIN UniqueCert(certs) :
              i < j => Place(certs, UniqueCert(certs)[i]) < Place(certs, UniqueCert(certs)[j])
<1> DEFINE N == Len(certs)
           u == UniqueCert(certs)
<1>1. PICK kept : KeepSteps(certs, kept)
  BY UniqueIsKept
<1>2. N \in Nat /\ DOMAIN certs = 1..N
  BY LenProperties
<1> DEFINE S == {n \in 0..N : KeptOK(certs, kept, n)}
<1>3. 0 \in S
  <2>1. kept[0] = <<>> /\ DOMAIN <<>> = {}
    BY <1>1 DEF KeepSteps
  <2>2. KeptOK(certs, kept, 0)
    BY <2>1 DEF KeptOK, ToSet
  <2> QED
    BY <1>2, <2>2
<1>4. ASSUME NEW n \in 1..N, n - 1 \in S PROVE n \in S
  BY <1>1, <1>4, KeepStep
<1> HIDE DEF S
<1>5. \A n \in 0..N : n \in S
  BY <1>2, <1>3, <1>4, UpTo
<1>6. KeptOK(certs, kept, N)
  BY <1>2, <1>5 DEF S
<1>7. u = kept[N]
  BY <1>1 DEF KeepSteps
<1> HIDE DEF u, N
<1>8. /\ \A c : c \in ToSet(u) <=> \E i \in 1..N : certs[i] = c
      /\ \A j, k \in DOMAIN u :
           j < k => \E a, b \in 1..N : a < b /\ First(certs, u[j], a) /\ First(certs, u[k], b)
  BY <1>6, <1>7 DEF KeptOK
<1>9. ToSet(u) = ToSet(certs)
  BY <1>2, <1>8 DEF ToSet
<1>10. ASSUME NEW j \in DOMAIN u, NEW k \in DOMAIN u, j < k
       PROVE  Place(certs, u[j]) < Place(certs, u[k])
  <2>1. PICK a \in 1..N, b \in 1..N :
          a < b /\ First(certs, u[j], a) /\ First(certs, u[k], b)
    BY <1>8, <1>10
  <2>2. Place(certs, u[j]) = a /\ Place(certs, u[k]) = b
    BY <2>1, FirstIsPlace
  <2> QED
    BY <2>1, <2>2
<1> QED
  BY <1>9, <1>10 DEF u

LEMMA Firsts == PemOK => KeepsFirsts
<1> SUFFICES ASSUME PemOK PROVE KeepsFirsts
  OBVIOUS
<1> DEFINE certs == ParseCertChain(pem).certs
<1>1. certs \in Seq(Certs)
  BY ChainsAreWhole DEF PemOK, Chains
<1> HIDE DEF certs
<1>2. /\ ToSet(UniqueCert(certs)) = ToSet(certs)
      /\ \A i, j \in DOMAIN UniqueCert(certs) :
           i < j => Place(certs, UniqueCert(certs)[i]) < Place(certs, UniqueCert(certs)[j])
  BY <1>1, UniqueKeepsFirsts
<1> QED
  BY <1>2 DEF KeepsFirsts, Place, certs

(* A bundle is read back whole and in order, or not at all, and UniqueCert *)
(* keeps each certificate once, at its first place (marshal.go 90-165).    *)
THEOREM ChainsComeBack == PemSpec => []ChainsSurvive
<1>1. PemOK => ChainsSurvive
  BY Whole, Firsts DEF ChainsSurvive
<1> QED
  BY <1>1, TextsHaveBlocks, PTL

------------------------------------------------------------------------------
(* The first key *)

ReadKey(r, b) ==
  IF r # NilPointer \/ ~Decides(b) THEN r ELSE IF b.Bytes \in Keys THEN b.Bytes ELSE Error
Results == Keys \cup {Error, NilPointer}
KeySteps(blocks, found) ==
  /\ found \in [0..Len(blocks) -> Results]
  /\ found[0] = NilPointer
  /\ \A n \in 1..Len(blocks) : found[n] = ReadKey(found[n - 1], blocks[n])
  /\ ParsePrivateKey(blocks) =
       IF found[Len(blocks)] = NilPointer THEN Error ELSE found[Len(blocks)]

LEMMA KeyIsFound ==
  ASSUME NEW blocks \in Seq(Blocks)
  PROVE  \E found : KeySteps(blocks, found)
<1> DEFINE N == Len(blocks)
           Recurs(f) == f = [n \in 0..N |-> IF n = 0 THEN NilPointer ELSE ReadKey(f[n - 1], blocks[n])]
           F == [n \in 1..N |-> [r \in Results |-> ReadKey(r, blocks[n])]]
           found == CHOOSE f : Recurs(f)
<1>1. ParsePrivateKey(blocks) = IF found[N] = NilPointer THEN Error ELSE found[N]
  BY DEF ParsePrivateKey, ReadKey
<1>2. N \in Nat /\ NilPointer \in Results
  BY LenProperties DEF Results
<1>3. \A r \in Results : \A n \in 1..N : ReadKey(r, blocks[n]) \in Results
  BY DEF ReadKey, Results
<1> HIDE DEF N, found
<1>4. F \in [1..N -> [Results -> Results]]
  BY <1>3
<1>5. PICK f : Steps(N, Results, NilPointer, F, f)
  <2> HIDE DEF F
  <2> QED
    BY <1>2, <1>4, StepsExist
<1>6. \A n \in 1..N : f[n - 1] \in Results /\ f[n] = ReadKey(f[n - 1], blocks[n])
  <2> TAKE n \in 1..N
  <2>1. n - 1 \in 0..N /\ f[n - 1] \in Results /\ f[n] = F[n][f[n - 1]]
    BY <1>2, <1>5 DEF Steps
  <2> QED
    BY <2>1
<1>7. f \in [0..N -> Results] /\ f[0] = NilPointer
  BY <1>5 DEF Steps
<1>8. Recurs(f)
  BY <1>6, <1>7
<1>9. Recurs(found)
  BY <1>8 DEF found
<1>10. f = found
  <2> DEFINE S == {n \in 0..N : f[n] = found[n]}
  <2>1. 0 \in S
    BY <1>2, <1>7, <1>9
  <2>2. ASSUME NEW n \in 1..N, n - 1 \in S PROVE n \in S
    BY <1>6, <1>9, <2>2
  <2> HIDE DEF S
  <2>3. \A n \in 0..N : n \in S
    BY <1>2, <2>1, <2>2, UpTo
  <2>4. \A n \in 0..N : f[n] = found[n]
    BY <2>3 DEF S
  <2> QED
    BY <1>7, <1>9, <2>4
<1>11. KeySteps(blocks, found)
  BY <1>1, <1>6, <1>7, <1>10 DEF KeySteps, N
<1> QED
  BY <1>11

(* A block that is no key decides nothing, or that there is none.          *)
LEMMA NoKeyDecides ==
  ASSUME NEW b \in Blocks
  PROVE  /\ ~IsKey(b) => (Decides(b) <=> Hides(b)) /\ (Decides(b) => b.Bytes \notin Keys)
         /\ IsKey(b) => Decides(b) /\ b.Bytes \in Keys
<1>1. b = Block("RSA PRIVATE KEY", Broken)
        <=> b.Type = "RSA PRIVATE KEY" /\ b.Bytes = Broken
  <2>1. b = [Type |-> b.Type, Bytes |-> b.Bytes]
    BY BlockFacts DEF Block
  <2>2. ASSUME b = Block("RSA PRIVATE KEY", Broken)
        PROVE  b.Type = "RSA PRIVATE KEY" /\ b.Bytes = Broken
    BY <2>2 DEF Block
  <2>3. ASSUME b.Type = "RSA PRIVATE KEY", b.Bytes = Broken
        PROVE  b = Block("RSA PRIVATE KEY", Broken)
    BY <2>1, <2>3 DEF Block
  <2> QED
    BY <2>2, <2>3
<1>2. Broken \notin Keys /\ Elliptic \notin Keys
  BY PemAssumption
<1>3. Broken # Elliptic
  BY DEF Broken, Elliptic
<1>4. /\ b.Type = "RSA PRIVATE KEY" => b.Bytes \in Keys \cup {Broken}
      /\ b.Type = "PRIVATE KEY" => b.Bytes \in Keys \cup {Broken, Elliptic}
      /\ b.Bytes = Elliptic => b.Type = "PRIVATE KEY"
  BY BlockFacts
<1> QED
  BY <1>1, <1>2, <1>3, <1>4 DEF IsKey, Decides, Hides

(* As long as no key stands in a text, nothing is found, or an error if    *)
(* something hides what comes.                                             *)
LEMMA BeforeTheKey ==
  ASSUME NEW blocks \in Seq(Blocks), NEW found, KeySteps(blocks, found),
         NEW i \in 1..Len(blocks), \A j \in 1..i - 1 : ~IsKey(blocks[j])
  PROVE  found[i - 1] = IF \E j \in 1..i - 1 : Hides(blocks[j]) THEN Error ELSE NilPointer
<1> DEFINE M == i - 1
           Before(n) == IF \E j \in 1..n : Hides(blocks[j]) THEN Error ELSE NilPointer
           S == {n \in 0..M : found[n] = Before(n)}
<1>1. Len(blocks) \in Nat /\ M \in Nat /\ \A n \in 1..M : n \in 1..Len(blocks)
  BY LenProperties
<1>2. 0 \in S
  BY <1>1 DEF KeySteps
<1>3. ASSUME NEW n \in 1..M, n - 1 \in S PROVE n \in S
  <2> DEFINE b == blocks[n]
             was == found[n - 1]
  <2>1. b \in Blocks /\ ~IsKey(b) /\ found[n] = ReadKey(was, b)
    BY <1>1, ElementOfSeq DEF KeySteps
  <2>2. \A j : j \in 1..n <=> j \in 1..n - 1 \/ j = n
    BY <1>1
  <2>3. was = Before(n - 1)
    BY <1>3
  <2>4. (\E j \in 1..n : Hides(blocks[j])) <=> (\E j \in 1..n - 1 : Hides(blocks[j])) \/ Hides(b)
    BY <2>2
  <2>5. (Decides(b) <=> Hides(b)) /\ (Decides(b) => b.Bytes \notin Keys)
    BY <2>1, NoKeyDecides
  <2> HIDE DEF b, was
  <2>6. NilPointer # Error
    BY PemAssumption
  <2>7. found[n] = Before(n)
    BY <2>1, <2>3, <2>4, <2>5, <2>6 DEF ReadKey
  <2> QED
    BY <1>3, <2>7
<1> HIDE DEF S
<1>4. \A n \in 0..M : n \in S
  BY <1>1, <1>2, <1>3, UpTo
<1>5. M \in S
  BY <1>1, <1>4
<1> QED
  BY <1>5 DEF S

(* What is found stays found.                                              *)
LEMMA FoundStays ==
  ASSUME NEW blocks \in Seq(Blocks), NEW found, KeySteps(blocks, found),
         NEW i \in 1..Len(blocks), found[i] # NilPointer
  PROVE  found[Len(blocks)] = found[i]
<1> DEFINE M == Len(blocks) - i
           S == {n \in 0..M : found[i + n] = found[i]}
<1>1. Len(blocks) \in Nat /\ M \in Nat /\ i \in Nat /\ i + M = Len(blocks)
  BY LenProperties
<1>2. 0 \in S
  BY <1>1
<1>3. ASSUME NEW n \in 1..M, n - 1 \in S PROVE n \in S
  <2>1. i + n \in 1..Len(blocks) /\ (i + n) - 1 = i + (n - 1)
    BY <1>1
  <2>2. found[i + n] = ReadKey(found[i + (n - 1)], blocks[i + n])
    BY <2>1 DEF KeySteps
  <2>3. found[i + n] = found[i]
    BY <1>3, <2>2 DEF ReadKey
  <2> QED
    BY <1>3, <2>3
<1> HIDE DEF S
<1>4. \A n \in 0..M : n \in S
  BY <1>1, <1>2, <1>3, UpTo
<1>5. M \in S
  BY <1>1, <1>4
<1> QED
  BY <1>1, <1>5 DEF S

(* The first key of a text is what ParsePrivateKey returns, unless a key   *)
(* of another kind or a broken PKCS#1 block stands before it               *)
(* (marshal.go 125-150).                                                   *)
THEOREM TheFirstKey == PemSpec => []FirstKeyFound
<1>1. PemOK => FirstKeyFound
  <2> SUFFICES ASSUME PemOK, NEW i \in DOMAIN pem, IsKey(pem[i]),
                      \A j \in 1..i - 1 : ~IsKey(pem[j])
               PROVE  ParsePrivateKey(pem) = pem[i].Bytes
                        <=> \A j \in 1..i - 1 : ~Hides(pem[j])
    BY DEF FirstKeyFound
  <2>1. pem \in Seq(Blocks) /\ i \in 1..Len(pem) /\ Len(pem) \in Nat
    BY LenProperties DEF PemOK
  <2>2. PICK found : KeySteps(pem, found)
    BY <2>1, KeyIsFound
  <2>3. found[i - 1] = IF \E j \in 1..i - 1 : Hides(pem[j]) THEN Error ELSE NilPointer
    BY <2>1, <2>2, BeforeTheKey
  <2>4. found[i] = ReadKey(found[i - 1], pem[i])
    BY <2>1, <2>2 DEF KeySteps
  <2>5. Decides(pem[i]) /\ pem[i].Bytes \in Keys
    BY <2>1, ElementOfSeq, NoKeyDecides
  <2>6. NilPointer # Error /\ NilPointer \notin Keys /\ Error \notin Keys
    BY PemAssumption
  <2>7. found[i] = IF \E j \in 1..i - 1 : Hides(pem[j]) THEN Error ELSE pem[i].Bytes
    BY <2>3, <2>4, <2>5, <2>6 DEF ReadKey
  <2>8. found[i] # NilPointer
    BY <2>5, <2>6, <2>7
  <2>9. found[Len(pem)] = found[i]
    BY <2>1, <2>2, <2>8, FoundStays
  <2>10. ParsePrivateKey(pem) = found[i]
    BY <2>2, <2>8, <2>9 DEF KeySteps
  <2> QED
    BY <2>5, <2>6, <2>7, <2>10
<1> QED
  BY <1>1, TextsHaveBlocks, PTL
==============================================================================
