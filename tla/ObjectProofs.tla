---------------------------- MODULE ObjectProofs ------------------------------
(***************************************************************************)
(* What is done to the fields of one object: what translateAsset() leaves  *)
(* of a placeholder, for every Config, any files and any YAML texts that   *)
(* agree with the table, and that clean() and defaults() are done at once, *)
(* for every object.                                                       *)
(***************************************************************************)
EXTENDS Translate, Drift, DocumentProofs

------------------------------------------------------------------------------
(* The table *)

NameRule == [rule : {"name"}, key : STRING]
NamePath == Seq(NameRule)
Row == [path : NamePath \ {<<>>}, nested : NamePath,
        template : StaticConfig \cup DOMAIN Derived]

LEMMA PathTyped ==
  ASSUME NEW ks \in Seq(TableKeys)
  PROVE  Path(ks) \in NamePath /\ Len(Path(ks)) = Len(ks)
<1>1. ks \in [1..Len(ks) -> TableKeys] /\ Len(ks) \in Nat /\ DOMAIN ks = 1..Len(ks)
  BY LenProperties
<1>2. \A j \in 1..Len(ks) : Name(ks[j]) \in NameRule
  BY <1>1, KeysAssumption DEF Name, NameRule
<1>3. Path(ks) \in [1..Len(ks) -> NameRule]
  BY <1>1, <1>2 DEF Path
<1>4. Path(ks) \in Seq(NameRule)
  BY <1>1, <1>3, SeqDef
<1>. QED
  BY <1>1, <1>3, <1>4, LenProperties DEF NamePath

PlainRow == {r \in Row : r.nested = <<>>}

LEMMA PlainTyped ==
  ASSUME NEW ks \in Seq(TableKeys), ks # <<>>, NEW t \in StaticConfig \cup DOMAIN Derived
  PROVE  Plain(ks, t) \in PlainRow
<1>1. Path(ks) \in NamePath \ {<<>>}
  <2>1. Len(ks) # 0
    BY EmptySeq
  <2>. QED
    BY <2>1, PathTyped
<1>2. <<>> \in NamePath
  BY DEF NamePath
<1>. QED
  BY <1>1, <1>2 DEF Plain, Row, PlainRow

LEMMA ProviderTyped ==
  ASSUME NEW ks \in Seq(TableKeys), NEW t \in StaticConfig \cup DOMAIN Derived
  PROVE  Provider(ks, t) \in PlainRow
<1> DEFINE front == <<"spec", "identityProviders", "0">>
<1>1. front \in Seq(TableKeys) /\ Len(front) = 3
  BY SMT DEF TableKeys
<1>2. ASSUME NEW f \in Seq(TableKeys), Len(f) = 3
      PROVE  f \o ks \in Seq(TableKeys) /\ f \o ks # <<>>
  <2>1. f \o ks \in Seq(TableKeys) /\ Len(f \o ks) = Len(f) + Len(ks)
    BY ConcatProperties
  <2>2. Len(ks) \in Nat
    BY LenProperties
  <2>3. Len(f \o ks) # 0
    BY <1>2, <2>1, <2>2
  <2>. QED
    BY <2>1, <2>3
<1>3. front \o ks \in Seq(TableKeys) /\ front \o ks # <<>>
  BY <1>1, <1>2
<1>. QED
  BY <1>3, PlainTyped DEF Provider

(* A row is a plain one, or the only one of its table and its value one of *)
(* the Config.                                                             *)
LEMMA TableTyped ==
  ASSUME NEW key
  PROVE  \/ Translations(key) \in Seq(PlainRow)
         \/ \E tr \in Row : tr.template \in StaticConfig /\ Translations(key) = <<tr>>
<1> DEFINE T == Translations(key)
<1>2. CASE key = "ConfigMap/openshift-config/osd-ldap-ca-configmap"
  <2>1. T = <<Plain(<<"stringData", "ca", "crt">>, "OSDLdapCA")>>
    BY <1>2 DEF Translations
  <2>2. <<"stringData", "ca", "crt">> \in Seq(TableKeys)
    BY SMT DEF TableKeys
  <2>3. Plain(<<"stringData", "ca", "crt">>, "OSDLdapCA") \in PlainRow
    BY <2>2, PlainTyped DEF StaticConfig
  <2>. QED
    BY <2>1, <2>3
<1>3. CASE key = "ConfigMap/openshift-monitoring/cluster-monitoring-config"
  <2> DEFINE tr == [path |-> Path(<<"data", "config.yaml">>),
                    nested |-> Path(<<"telemeterClient", "telemeterServerURL">>),
                    template |-> "TelemeterServerURL"]
  <2>1. T = <<tr>>
    BY <1>3 DEF Translations
  <2>2. /\ <<"data", "config.yaml">> \in Seq(TableKeys) /\ Len(<<"data", "config.yaml">>) = 2
        /\ <<"telemeterClient", "telemeterServerURL">> \in Seq(TableKeys)
    BY SMT DEF TableKeys
  <2>3. Path(<<"data", "config.yaml">>) # <<>>
    <3>1. Len(Path(<<"data", "config.yaml">>)) = 2
      BY <2>2, PathTyped
    <3>. QED
      BY <3>1
  <2>4. tr \in Row /\ tr.template \in StaticConfig
    BY <2>2, <2>3, PathTyped DEF Row, StaticConfig
  <2>. QED
    BY <2>1, <2>4
<1>4. CASE key = "Secret/openshift-config/osd-oauth-templates-errors"
  <2>1. T = <<Plain(<<"stringData", "errors.html">>, "OAuthTemplateErrors")>>
    BY <1>4 DEF Translations
  <2>2. <<"stringData", "errors.html">> \in Seq(TableKeys)
    BY SMT DEF TableKeys
  <2>3. Plain(<<"stringData", "errors.html">>, "OAuthTemplateErrors") \in PlainRow
    BY <2>2, PlainTyped DEF Derived
  <2>. QED
    BY <2>1, <2>3
<1>5. CASE key = "Deployment.apps/openshift-velero/managed-velero-operator"
  <2> DEFINE ks == <<"spec", "template", "spec", "containers", "0", "image">>
  <2>1. T = <<Plain(ks, "ValeroOperatorImage")>>
    BY <1>5 DEF Translations
  <2>2. ks \in Seq(TableKeys) /\ Len(ks) = 6
    BY SMT DEF TableKeys
  <2>3. Plain(ks, "ValeroOperatorImage") \in PlainRow
    BY <2>2, PlainTyped DEF StaticConfig
  <2>. QED
    BY <2>1, <2>3
<1>6. CASE key = "Secret/openshift-config/osd-oauth-templates-login"
  <2>1. T = <<Plain(<<"stringData", "login.html">>, "OAuthTemplateLogin")>>
    BY <1>6 DEF Translations
  <2>2. <<"stringData", "login.html">> \in Seq(TableKeys)
    BY SMT DEF TableKeys
  <2>3. Plain(<<"stringData", "login.html">>, "OAuthTemplateLogin") \in PlainRow
    BY <2>2, PlainTyped DEF Derived
  <2>. QED
    BY <2>1, <2>3
<1>7. CASE key = "Secret/openshift-config/osd-oauth-templates-providers"
  <2>1. T = <<Plain(<<"stringData", "providers.html">>, "OAuthTemplateLogin")>>
    BY <1>7 DEF Translations
  <2>2. <<"stringData", "providers.html">> \in Seq(TableKeys)
    BY SMT DEF TableKeys
  <2>3. Plain(<<"stringData", "providers.html">>, "OAuthTemplateLogin") \in PlainRow
    BY <2>2, PlainTyped DEF Derived
  <2>. QED
    BY <2>1, <2>3
<1>8. CASE key = "SelectorSyncIdentityProvider.hive.openshift.io/osd-sre-identityprovider"
  <2>1. /\ <<"ldap", "attributes", "email", "0">> \in Seq(TableKeys)
        /\ <<"ldap", "attributes", "id", "0">> \in Seq(TableKeys)
        /\ <<"ldap", "attributes", "name", "0">> \in Seq(TableKeys)
        /\ <<"ldap", "attributes", "preferredUsername", "0">> \in Seq(TableKeys)
        /\ <<"ldap", "bindDN">> \in Seq(TableKeys) /\ <<"ldap", "url">> \in Seq(TableKeys)
        /\ <<"mappingMethod">> \in Seq(TableKeys) /\ <<"name">> \in Seq(TableKeys)
    BY SMT DEF TableKeys
  <2>2. IdentityFields \subseteq StaticConfig
    BY DEF StaticConfig
  <2>3. /\ Provider(<<"ldap", "attributes", "email", "0">>, "IdentityAttrEmail") \in PlainRow
        /\ Provider(<<"ldap", "attributes", "id", "0">>, "IdentityAttrID") \in PlainRow
        /\ Provider(<<"ldap", "attributes", "name", "0">>, "IdentityAttrName") \in PlainRow
        /\ Provider(<<"ldap", "attributes", "preferredUsername", "0">>,
                    "IdentityAttrPreferredUsername") \in PlainRow
        /\ Provider(<<"ldap", "bindDN">>, "IdentityBindName") \in PlainRow
        /\ Provider(<<"ldap", "url">>, "IdentityURL") \in PlainRow
        /\ Provider(<<"mappingMethod">>, "IdentityMappingMethod") \in PlainRow
        /\ Provider(<<"name">>, "IdentityName") \in PlainRow
    BY <2>1, <2>2, ProviderTyped DEF IdentityFields
  <2>4. ASSUME NEW r1 \in PlainRow, NEW r2 \in PlainRow, NEW r3 \in PlainRow, NEW r4 \in PlainRow,
               NEW r5 \in PlainRow, NEW r6 \in PlainRow, NEW r7 \in PlainRow, NEW r8 \in PlainRow
        PROVE  <<r1, r2, r3, r4, r5, r6, r7, r8>> \in Seq(PlainRow)
    OBVIOUS
  <2>. QED
    BY <1>8, <2>3, <2>4 DEF Translations
<1>9. CASE /\ key # "ConfigMap/openshift-config/osd-ldap-ca-configmap"
           /\ key # "ConfigMap/openshift-monitoring/cluster-monitoring-config"
           /\ key # "Secret/openshift-config/osd-oauth-templates-errors"
           /\ key # "Deployment.apps/openshift-velero/managed-velero-operator"
           /\ key # "Secret/openshift-config/osd-oauth-templates-login"
           /\ key # "Secret/openshift-config/osd-oauth-templates-providers"
           /\ key # "SelectorSyncIdentityProvider.hive.openshift.io/osd-sre-identityprovider"
  BY <1>9 DEF Translations
<1>. QED
  BY <1>2, <1>3, <1>4, <1>5, <1>6, <1>7, <1>8, <1>9

------------------------------------------------------------------------------
(* Documents *)

LEMMA NamesOnly ==
  ASSUME NEW rules \in NamePath
  PROVE  /\ rules \in Seq(RuleType) /\ Len(rules) \in Nat
         /\ \A j \in 1..Len(rules) : rules[j].rule = "name"
         /\ rules # <<>> => Len(rules) # 0
<1>1. NameRule \subseteq RuleType
  BY DEF NameRule, RuleType, SubscriptType
<1>2. /\ Len(rules) \in Nat /\ rules \in [1..Len(rules) -> NameRule]
      /\ Len(rules) = 0 => rules = <<>>
  BY LenProperties, EmptySeq DEF NamePath
<1>3. rules \in [1..Len(rules) -> RuleType]
  BY <1>1, <1>2
<1>4. rules \in Seq(RuleType)
  BY <1>2, <1>3, SeqDef
<1>5. \A j \in 1..Len(rules) : rules[j] \in NameRule
  BY <1>2
<1>. QED
  BY <1>2, <1>4, <1>5 DEF NameRule

(* Nothing hangs in an atom.                                               *)
LEMMA NothingBelow ==
  ASSUME NEW d, Tree(d), NEW p \in DOMAIN d, d[p] \notin Node,
         NEW q \in DOMAIN d, Within(p, q)
  PROVE  q = p
<1>. SUFFICES ASSUME q # p PROVE FALSE
  OBVIOUS
<1>1. p \in Position /\ q \in Position /\ Len(p) \in Nat /\ Len(q) \in Nat
  BY LenProperties DEF Position, Tree
<1>2. Len(p) <= Len(q) /\ SubSeq(q, 1, Len(p)) = p
  BY <1>1, WithinMeans
<1>3. Len(p) # Len(q)
  BY <1>1, WithinSameLength
<1> DEFINE n == Len(p) + 1
           r == SubSeq(q, 1, n)
<1>4. n \in 1..Len(q) /\ n \in 0..Len(q) /\ n - 1 = Len(p)
  BY <1>1, <1>2, <1>3
<1> HIDE DEF n
<1>5. r # <<>> /\ Parent(r) = p
  BY <1>1, <1>2, <1>4, PrefixAbove
<1>6. r \in Position /\ Within(r, q)
  BY <1>1, <1>4, Prefix, WithinPrefix
<1>7. r \in DOMAIN d
  BY <1>6, AboveIsThere
<1>. QED
  BY <1>5, <1>7 DEF Tree

(* A path of names finds one place at most.                                *)
LEMMA OnePlace ==
  ASSUME NEW d, NEW rules \in NamePath, NEW p \in Position, NEW q \in Position,
         Means(d, rules, p), Means(d, rules, q)
  PROVE  p = q
<1> DEFINE N == Len(rules)
           S == {n \in 0..N : SubSeq(p, 1, n) = SubSeq(q, 1, n)}
<1>1. N \in Nat /\ Len(p) = N /\ Len(q) = N
  BY NamesOnly DEF Means
<1>2. 0 \in S
  <2>1. /\ 0 \in 0..Len(p) /\ 0 \in 0..Len(q) /\ 0 \in 0..N
    BY <1>1
  <2>2. /\ SubSeq(p, 1, 0) \in Position /\ Len(SubSeq(p, 1, 0)) = 0
        /\ SubSeq(q, 1, 0) \in Position /\ Len(SubSeq(q, 1, 0)) = 0
    BY <2>1, Prefix
  <2>. QED
    BY <2>1, <2>2, Root
<1>3. ASSUME NEW n \in 1..N, n - 1 \in S
      PROVE  n \in S
  <2> DEFINE u == SubSeq(p, 1, n)
             w == SubSeq(q, 1, n)
  <2>1. n \in 1..Len(p) /\ n \in 1..Len(q) /\ n \in 0..Len(p) /\ n \in 0..Len(q) /\ n \in 0..N
    BY <1>1
  <2>2. u \in Position /\ u # <<>> /\ w \in Position /\ w # <<>>
    BY <2>1, Prefix, PrefixAbove
  <2>3. Parent(u) = Parent(w)
    BY <1>3, <2>1, PrefixAbove
  <2>4. Selects(d, rules[n], u) /\ Selects(d, rules[n], w) /\ rules[n].rule = "name"
    BY NamesOnly DEF Means
  <2> HIDE DEF u, w
  <2>5. Last(u) = Last(w)
    BY <2>3, <2>4 DEF Selects
  <2>6. u = Append(Parent(u), Last(u)) /\ w = Append(Parent(w), Last(w))
    BY <2>2, Above
  <2>7. u = w
    BY <2>3, <2>5, <2>6
  <2>. QED
    BY <2>1, <2>7 DEF u, w
<1> HIDE DEF S
<1>4. \A n \in 0..N : n \in S
  BY <1>1, <1>2, <1>3, UpTo
<1>5. SubSeq(p, 1, N) = SubSeq(q, 1, N)
  BY <1>1, <1>4 DEF S
<1>6. SubSeq(p, 1, N) = p /\ SubSeq(q, 1, N) = q
  BY <1>1, WithinMeans, WithinSelf
<1>. QED
  BY <1>5, <1>6

(* What a path of names finds is settled by the positions and by which of  *)
(* them are maps and lists.                                                *)
LEMMA SamePlaces ==
  ASSUME NEW d, IsDocument(d), NEW e, IsDocument(e), DOMAIN e = DOMAIN d,
         \A p \in DOMAIN d : d[p] \in Node \/ e[p] \in Node => d[p] = e[p],
         NEW rules \in NamePath
  PROVE  Locations(e, rules) = Locations(d, rules)
<1>1. ASSUME NEW p \in Position
      PROVE  Means(e, rules, p) <=> Means(d, rules, p)
  <2>1. \A j \in 1..Len(rules) : rules[j].rule = "name"
    BY NamesOnly
  <2>2. ASSUME NEW rule, NEW q
        PROVE  Selects(e, rule, q) <=> Selects(d, rule, q)
    BY DEF Selects
  <2>. QED
    BY <2>1, <2>2 DEF Means
<1>2. rules \in Seq(RuleType)
  BY NamesOnly
<1>. QED
  BY <1>1, <1>2, LocationsMean

LEMMA LeafFacts ==
  ASSUME NEW v
  PROVE  /\ DOMAIN Leaf(v) = {<<>>} /\ Leaf(v)[<<>>] = v
         /\ IsDocument(Leaf(v)) /\ IsFiniteSet(DOMAIN Leaf(v))
<1>1. DOMAIN Leaf(v) = {<<>>} /\ Leaf(v)[<<>>] = v /\ Leaf(v) = [p \in {<<>>} |-> v]
  BY DEF Leaf
<1>2. <<>> \in Seq(STRING)
  OBVIOUS
<1>3. IsFiniteSet({<<>>})
  BY FS_Singleton
<1>. QED
  BY <1>1, <1>2, <1>3 DEF IsDocument

(* Set on atoms that are there: they have the value, the rest is as it was.*)
LEMMA SetAtoms ==
  ASSUME NEW d, IsDocument(d), NEW rules \in NamePath, rules # <<>>, NEW v,
         \A l \in Locations(d, rules) : l \in DOMAIN d /\ d[l] \notin Node
  PROVE  /\ IsDocument(Set(d, rules, Leaf(v)))
         /\ DOMAIN Set(d, rules, Leaf(v)) = DOMAIN d
         /\ \A q \in DOMAIN d :
              Set(d, rules, Leaf(v))[q] = IF q \in Locations(d, rules) THEN v ELSE d[q]
<1> DEFINE L == Locations(d, rules)
           n == Len(rules)
           e == PutAt(d, L, Leaf(v))
<1>1. rules \in Seq(RuleType) /\ n \in Nat \ {0}
  BY NamesOnly
<1>2. Settable(d, L, n)
  BY <1>1, LocationsSettable
<1>3. L \in SUBSET Position /\ \A l \in L : Len(l) = n
  BY <1>1, GetMeans
<1>4. DOMAIN d \subseteq Position /\ <<>> \in DOMAIN d
  BY DocumentFacts
<1>5. \A l \in L : l \in DOMAIN d /\ d[l] \notin Node
  OBVIOUS
<1> HIDE DEF L, n
<1>6. IsDocument(e)
  BY <1>1, <1>2, LeafFacts, PutDocument
<1>7. \A l \in L : l \o <<>> = l
  BY <1>3, Root
<1>8. DOMAIN e = {<<>>} \cup Kept(d, L) \cup L
  <2> DEFINE x == Leaf(v)
  <2>0. DOMAIN x = {<<>>}
    BY LeafFacts
  <2> HIDE DEF x
  <2>1. \A q : q \in Put(L, x) <=> \E l \in L : \E s \in DOMAIN x : q = l \o s
    BY PutMember
  <2>2. \A q : q \in Put(L, x) <=> q \in L
    BY <1>7, <2>0, <2>1
  <2>3. Put(L, x) = L
    BY <2>2
  <2>4. DOMAIN PutAt(d, L, x) = {<<>>} \cup Kept(d, L) \cup Put(L, x)
    BY PutDomain
  <2>. QED
    BY <2>3, <2>4 DEF x
<1>9. \A q \in DOMAIN d : q \in Kept(d, L) \/ q \in L
  BY <1>5, NothingBelow, DocumentIsTree DEF Kept
<1>10. DOMAIN e = DOMAIN d
  BY <1>4, <1>5, <1>8, <1>9 DEF Kept
<1>11. DOMAIN CutAt(d, L) = {<<>>} \cup Kept(d, L)
  BY CutFrame
<1>12. /\ \A q \in DOMAIN CutAt(d, L) : e[q] = d[q]
       /\ \A l \in L, s \in DOMAIN Leaf(v) :
            l \o s \notin DOMAIN CutAt(d, L) /\ e[l \o s] = Leaf(v)[s]
  <2>1. DOMAIN Leaf(v) \subseteq Position
    BY LeafFacts, <1>4
  <2>. QED
    BY <1>1, <1>3, <1>4, <2>1, PutFrame
<1>13. \A l \in L : l \notin DOMAIN CutAt(d, L) /\ e[l] = v
  <2>1. <<>> \in DOMAIN Leaf(v) /\ Leaf(v)[<<>>] = v
    BY LeafFacts
  <2>2. \A l \in L : l \o <<>> \notin DOMAIN CutAt(d, L) /\ e[l \o <<>>] = v
    BY <1>12, <2>1
  <2>. QED
    BY <1>7, <2>2
<1>14. \A q \in DOMAIN d : e[q] = IF q \in L THEN v ELSE d[q]
  BY <1>9, <1>11, <1>12, <1>13
<1>. QED
  BY <1>6, <1>10, <1>14 DEF Set, L

------------------------------------------------------------------------------
(* Opening the texts *)

(* A position is in one text at most, and a text is nowhere else.          *)
LEMMA OpenedIs ==
  ASSUME NEW d, IsDocument(d)
  PROVE  /\ \A p : p \in DOMAIN Opened(d) <=>
              \/ p \in DOMAIN d /\ d[p] \notin DOMAIN Yaml
              \/ \E t \in YamlTexts(d) : \E q \in DOMAIN Yaml[d[t]] : p = t \o q
         /\ \A p \in DOMAIN d : d[p] \notin DOMAIN Yaml => Opened(d)[p] = d[p]
         /\ \A t \in YamlTexts(d) : \A q \in DOMAIN Yaml[d[t]] :
              Opened(d)[t \o q] = Yaml[d[t]][q]
<1> DEFINE inside == UNION {{t \o q : q \in DOMAIN Yaml[d[t]]} : t \in YamlTexts(d)}
           Of(p)  == CHOOSE t \in YamlTexts(d) : Within(t, p)
           Value(p) == IF p \notin inside THEN d[p]
                       ELSE Yaml[d[Of(p)]][SubSeq(p, Len(Of(p)) + 1, Len(p))]
<1>1. /\ DOMAIN d \subseteq Position
      /\ \A t \in YamlTexts(d) : /\ t \in DOMAIN d /\ d[t] \in DOMAIN Yaml /\ d[t] \notin Node
                                 /\ DOMAIN Yaml[d[t]] \subseteq Position
  BY DocumentFacts, ValuesAssumption, YamlAssumption DEF YamlTexts
<1>2. \A p : p \in inside <=> \E t \in YamlTexts(d) : \E q \in DOMAIN Yaml[d[t]] : p = t \o q
  <2> DEFINE In(t) == {t \o q : q \in DOMAIN Yaml[d[t]]}
  <2>1. \A p, t : p \in In(t) <=> \E q \in DOMAIN Yaml[d[t]] : p = t \o q
    OBVIOUS
  <2> HIDE DEF In
  <2>2. inside = UNION {In(t) : t \in YamlTexts(d)}
    BY DEF In
  <2> HIDE DEF inside
  <2>3. \A p : p \in inside <=> \E t \in YamlTexts(d) : p \in In(t)
    BY <2>2
  <2>. QED
    BY <2>1, <2>3
<1>3. ASSUME NEW p \in DOMAIN d, p \in inside
      PROVE  p \in YamlTexts(d)
  <2>1. PICK t \in YamlTexts(d) : \E q \in DOMAIN Yaml[d[t]] : p = t \o q
    BY <1>2, <1>3
  <2>2. Within(t, p)
    BY <1>1, <2>1, Joined
  <2>3. p = t
    BY <1>1, <2>2, NothingBelow, DocumentIsTree
  <2>. QED
    BY <2>3
<1>4. ASSUME NEW t \in YamlTexts(d), NEW q \in DOMAIN Yaml[d[t]]
      PROVE  /\ Of(t \o q) = t
             /\ SubSeq(t \o q, Len(t) + 1, Len(t \o q)) = q
  <2>1. t \in Position /\ q \in Position /\ t \o q \in Position
    BY <1>1, Joined
  <2>2. Within(t, t \o q) /\ SubSeq(t \o q, Len(t) + 1, Len(t \o q)) = q
    BY <2>1, Joined
  <2>3. ASSUME NEW u \in YamlTexts(d), Within(u, t \o q)
        PROVE  u = t
    <3>1. u \in Position /\ Len(u) \in Nat /\ Len(t) \in Nat
      BY <1>1, <2>1, LenProperties DEF Position
    <3>2. Within(u, t) \/ Within(t, u)
      BY <2>1, <2>2, <2>3, <3>1, WithinBoth
    <3>. QED
      BY <1>1, <3>2, NothingBelow, DocumentIsTree
  <2>. QED
    BY <2>2, <2>3
<1> HIDE DEF Of, inside
<1>5. Opened(d) = [p \in ((DOMAIN d) \ YamlTexts(d)) \cup inside |-> Value(p)]
  BY DEF Opened, Of, inside
<1> HIDE DEF Value
<1>6. DOMAIN Opened(d) = ((DOMAIN d) \ YamlTexts(d)) \cup inside
  BY <1>5
<1>7. ASSUME NEW p \in DOMAIN d, d[p] \notin DOMAIN Yaml
      PROVE  Opened(d)[p] = d[p]
  BY <1>3, <1>5, <1>7 DEF YamlTexts, Value
<1>8. ASSUME NEW t \in YamlTexts(d), NEW q \in DOMAIN Yaml[d[t]]
      PROVE  Opened(d)[t \o q] = Yaml[d[t]][q]
  <2>1. t \o q \in inside
    BY <1>2
  <2>2. Opened(d)[t \o q] = Value(t \o q)
    BY <1>5, <2>1
  <2>3. Value(t \o q) = Yaml[d[Of(t \o q)]][SubSeq(t \o q, Len(Of(t \o q)) + 1, Len(t \o q))]
    BY <2>1 DEF Value
  <2>. QED
    BY <1>4, <2>2, <2>3
<1>. QED
  BY <1>2, <1>6, <1>7, <1>8 DEF YamlTexts

------------------------------------------------------------------------------
(* The files *)

(* d is A with values in place of placeholders, in its texts too.          *)
FilledIn(A, d) ==
  /\ DOMAIN d = DOMAIN A
  /\ \A p \in DOMAIN A : d[p] = A[p] \/ (A[p] = Placeholder /\ d[p] \in Given)
Becomes(A, d) ==
  /\ IsDocument(d) /\ DOMAIN d = DOMAIN A
  /\ \A p \in DOMAIN A :
       \/ d[p] = A[p]
       \/ A[p] = Placeholder /\ d[p] \in Given
       \/ A[p] \in DOMAIN Yaml /\ d[p] \in DOMAIN Yaml /\ FilledIn(Yaml[A[p]], Yaml[d[p]])

(* The row has put its value everywhere it goes to.                        *)
Reached(A, d, tr) ==
  IF tr.nested = <<>> THEN \A p \in Locations(A, tr.path) : p \in DOMAIN d /\ d[p] \in Given
  ELSE \A p \in Get(A, tr.path) : \A q \in Locations(Yaml[A[p]], tr.nested) :
         Yaml[d[p]][q] \in Given

LEMMA Tuples ==
  ASSUME NEW p, NEW q, NEW r, NEW s
  PROVE  /\ <<p>> # <<q, r>>
         /\ <<p>> = <<q>> => p = q
         /\ <<p, q>> = <<r, s>> => p = r /\ q = s
<1>1. Len(<<p>>) = 1 /\ Len(<<q, r>>) = 2
  OBVIOUS
<1>2. <<p>>[1] = p /\ <<q>>[1] = q
  OBVIOUS
<1>3. <<p, q>>[1] = p /\ <<p, q>>[2] = q /\ <<r, s>>[1] = r /\ <<r, s>>[2] = s
  OBVIOUS
<1>. QED
  BY <1>1, <1>2, <1>3

LEMMA OpenIs ==
  ASSUME NEW d
  PROVE  /\ \A p : <<p>> \in Open(d) <=> p \in DOMAIN d /\ d[p] = Placeholder
         /\ \A p, q : <<p, q>> \in Open(d) <=>
              /\ p \in DOMAIN d /\ d[p] \in DOMAIN Yaml
              /\ q \in DOMAIN Yaml[d[p]] /\ Yaml[d[p]][q] = Placeholder
<1> DEFINE At(p) == {<<p, q>> : q \in {q \in DOMAIN Yaml[d[p]] : Yaml[d[p]][q] = Placeholder}}
           P == {<<p>> : p \in {p \in DOMAIN d : d[p] = Placeholder}}
           T == {p \in DOMAIN d : d[p] \in DOMAIN Yaml}
<1>1. \A x : x \in P <=> \E p \in DOMAIN d : d[p] = Placeholder /\ x = <<p>>
  OBVIOUS
<1>2. \A x, p : x \in At(p) <=>
        \E q \in DOMAIN Yaml[d[p]] : Yaml[d[p]][q] = Placeholder /\ x = <<p, q>>
  OBVIOUS
<1>3. Open(d) = P \cup UNION {At(p) : p \in T}
  BY DEF Open
<1>4. \A p : p \in T <=> p \in DOMAIN d /\ d[p] \in DOMAIN Yaml
  OBVIOUS
<1> HIDE DEF P, At, T
<1>5. \A x : x \in Open(d) <=> x \in P \/ \E p \in T : x \in At(p)
  BY <1>3
<1>. QED
  BY <1>1, <1>2, <1>4, <1>5, Tuples

LEMMA FilledIs ==
  ASSUME NEW d, NEW tr
  PROVE  /\ \A p : <<p>> \in Filled(d, tr) <=> tr.nested = <<>> /\ p \in Locations(d, tr.path)
         /\ \A p, q : <<p, q>> \in Filled(d, tr) <=>
              /\ tr.nested # <<>> /\ p \in Get(d, tr.path)
              /\ q \in Locations(Yaml[d[p]], tr.nested)
<1> DEFINE In(p) == {<<p, q>> : q \in Locations(Yaml[d[p]], tr.nested)}
           P == {<<p>> : p \in Locations(d, tr.path)}
<1>1. \A x : x \in P <=> \E p \in Locations(d, tr.path) : x = <<p>>
  OBVIOUS
<1>2. \A x, p : x \in In(p) <=> \E q \in Locations(Yaml[d[p]], tr.nested) : x = <<p, q>>
  OBVIOUS
<1>3. Filled(d, tr) = IF tr.nested = <<>> THEN P ELSE UNION {In(p) : p \in Get(d, tr.path)}
  BY DEF Filled
<1> HIDE DEF P, In
<1>4. \A x : x \in Filled(d, tr) <=>
        \/ tr.nested = <<>> /\ x \in P
        \/ tr.nested # <<>> /\ \E p \in Get(d, tr.path) : x \in In(p)
  BY <1>3
<1>. QED
  BY <1>1, <1>2, <1>4, Tuples

LEMMA RowsOverwriteNothing ==
  ASSUME NEW a \in DOMAIN Assets, NEW j \in DOMAIN Translations(a)
  PROVE  LET A == Assets[a] tr == Translations(a)[j]
         IN  IF tr.nested = <<>>
               THEN \A p \in Locations(A, tr.path) : p \in DOMAIN A /\ A[p] = Placeholder
               ELSE /\ Get(A, tr.path) # {}
                    /\ \A p \in Get(A, tr.path) :
                         /\ A[p] \in DOMAIN Yaml
                         /\ \A q \in Locations(Yaml[A[p]], tr.nested) :
                              q \in DOMAIN Yaml[A[p]] /\ Yaml[A[p]][q] = Placeholder
<1> DEFINE A == Assets[a]
           tr == Translations(a)[j]
           rows == {Translations(a)[k] : k \in DOMAIN Translations(a)}
<1>1. tr \in rows
  OBVIOUS
<1>2. /\ Open(A) = UNION {Filled(A, r) : r \in rows}
      /\ \A r \in rows : r.nested # <<>> =>
           Get(A, r.path) # {} /\ \A p \in Get(A, r.path) : A[p] \in DOMAIN Yaml
  BY FilesAssumption
<1> HIDE DEF rows, A, tr
<1>3. \A x \in Filled(A, tr) : x \in Open(A)
  BY <1>1, <1>2
<1>4. CASE tr.nested = <<>>
  <2>1. \A p \in Locations(A, tr.path) : <<p>> \in Open(A)
    BY <1>3, <1>4, FilledIs
  <2>. QED
    BY <1>4, <2>1, OpenIs DEF A, tr
<1>5. CASE tr.nested # <<>>
  <2>1. \A p \in Get(A, tr.path) : \A q \in Locations(Yaml[A[p]], tr.nested) : <<p, q>> \in Open(A)
    BY <1>3, <1>5, FilledIs
  <2>2. \A p \in Get(A, tr.path) : \A q \in Locations(Yaml[A[p]], tr.nested) :
          q \in DOMAIN Yaml[A[p]] /\ Yaml[A[p]][q] = Placeholder
    <3>1. ASSUME NEW p, NEW q, <<p, q>> \in Open(A)
          PROVE  q \in DOMAIN Yaml[A[p]] /\ Yaml[A[p]][q] = Placeholder
      BY <3>1, OpenIs
    <3>. QED
      BY <2>1, <3>1
  <2>. QED
    BY <1>1, <1>2, <1>5, <2>2 DEF A, tr
<1>. QED
  BY <1>4, <1>5

LEMMA RowsMissNothing ==
  ASSUME NEW a \in DOMAIN Assets, NEW p \in DOMAIN Assets[a]
  PROVE  LET A == Assets[a] T == Translations(a)
         IN  /\ A[p] = Placeholder =>
                  \E j \in DOMAIN T : T[j].nested = <<>> /\ p \in Locations(A, T[j].path)
             /\ A[p] \in DOMAIN Yaml => \A q \in DOMAIN Yaml[A[p]] : Yaml[A[p]][q] = Placeholder =>
                  \E j \in DOMAIN T : /\ T[j].nested # <<>> /\ p \in Get(A, T[j].path)
                                      /\ q \in Locations(Yaml[A[p]], T[j].nested)
<1> DEFINE A == Assets[a]
           T == Translations(a)
           rows == {T[k] : k \in DOMAIN T}
<1>1. Open(A) = UNION {Filled(A, r) : r \in rows}
  BY FilesAssumption
<1>2. \A r \in rows : \E j \in DOMAIN T : r = T[j]
  OBVIOUS
<1> HIDE DEF rows, A, T
<1>3. \A x \in Open(A) : \E j \in DOMAIN T : x \in Filled(A, T[j])
  BY <1>1, <1>2
<1>4. ASSUME A[p] = Placeholder
      PROVE  \E j \in DOMAIN T : T[j].nested = <<>> /\ p \in Locations(A, T[j].path)
  <2>1. <<p>> \in Open(A)
    BY <1>4, OpenIs DEF A
  <2>. QED
    BY <1>3, <2>1, FilledIs
<1>5. ASSUME A[p] \in DOMAIN Yaml, NEW q \in DOMAIN Yaml[A[p]], Yaml[A[p]][q] = Placeholder
      PROVE  \E j \in DOMAIN T : /\ T[j].nested # <<>> /\ p \in Get(A, T[j].path)
                                 /\ q \in Locations(Yaml[A[p]], T[j].nested)
  <2>1. <<p, q>> \in Open(A)
    BY <1>5, OpenIs DEF A
  <2>. QED
    BY <1>3, <2>1, FilledIs
<1>. QED
  BY <1>4, <1>5 DEF A, T

------------------------------------------------------------------------------
(* A translation *)

LEMMA AtomsApart ==
  /\ Given \cap Node = {} /\ Given \cap DOMAIN Yaml = {} /\ Placeholder \notin Given
  /\ DOMAIN Yaml \cap Node = {} /\ Placeholder \notin DOMAIN Yaml /\ Placeholder \notin Node
BY ValuesAssumption DEF Node, Placeholder

LEMMA BecomesNothingElse ==
  ASSUME NEW A, NEW d, Becomes(A, d)
  PROVE  \A p \in DOMAIN A : d[p] \in Node \/ A[p] \in Node => A[p] = d[p]
BY AtomsApart DEF Becomes

LEMMA TemplateGiven ==
  ASSUME config \in Configs, NEW t \in StaticConfig \cup DOMAIN Derived
  PROVE  Template(t) \in Given /\ (t \in StaticConfig => Template(t) \in Values)
<1>1. config \in [StaticConfig -> Values]
  BY ValuesAssumption
<1>. QED
  BY <1>1 DEF Template, Given

(* A plain row puts its value where the file has a placeholder.            *)
LEMMA PlainStep ==
  ASSUME NEW A, IsDocument(A), NEW d, Becomes(A, d), NEW tr \in PlainRow, NEW v \in Given,
         \A p \in Locations(A, tr.path) : p \in DOMAIN A /\ A[p] = Placeholder
  PROVE  /\ Becomes(A, Translated(d, tr, v))
         /\ Reached(A, Translated(d, tr, v), tr)
         /\ \A r \in PlainRow : Reached(A, d, r) => Reached(A, Translated(d, tr, v), r)
<1> DEFINE e == Set(d, tr.path, Leaf(v))
           L == Locations(A, tr.path)
<1>1. tr.path \in NamePath /\ tr.path # <<>> /\ tr.nested = <<>>
  BY DEF PlainRow, Row
<1>2. Translated(d, tr, v) = e
  BY <1>1 DEF Translated
<1>3. IsDocument(d) /\ DOMAIN d = DOMAIN A
  BY DEF Becomes
<1>4. Locations(d, tr.path) = L
  BY <1>1, <1>3, BecomesNothingElse, SamePlaces
<1>5. \A p \in L : p \in DOMAIN d /\ d[p] \notin Node
  BY <1>3, AtomsApart DEF Becomes
<1>6. /\ IsDocument(e) /\ DOMAIN e = DOMAIN A
      /\ \A p \in DOMAIN A : e[p] = IF p \in L THEN v ELSE d[p]
  BY <1>1, <1>3, <1>4, <1>5, SetAtoms
<1> HIDE DEF e, L
<1>7. Becomes(A, e)
  BY <1>6 DEF Becomes, L
<1>8. \A p \in DOMAIN A : e[p] = v \/ e[p] = d[p]
  BY <1>6
<1>9. Reached(A, e, tr)
  BY <1>1, <1>6 DEF Reached, L
<1>10. ASSUME NEW r \in PlainRow, Reached(A, d, r)
       PROVE  Reached(A, e, r)
  <2>1. r.nested = <<>>
    BY DEF PlainRow
  <2>2. ASSUME NEW p \in Locations(A, r.path)
        PROVE  p \in DOMAIN e /\ e[p] \in Given
    <3>1. p \in DOMAIN d /\ d[p] \in Given
      BY <1>10, <2>1, <2>2 DEF Reached
    <3>. QED
      BY <1>3, <1>6, <1>8, <3>1
  <2>. QED
    BY <2>1, <2>2 DEF Reached
<1>. QED
  BY <1>2, <1>7, <1>9, <1>10

(* A nested row is the only one of its table: it opens the one text it     *)
(* finds, and writes one that stands for the document with the value.      *)
LEMMA NestedStep ==
  ASSUME NEW a \in DOMAIN Assets, NEW tr \in Row, Translations(a) = <<tr>>,
         tr.nested # <<>>, NEW v \in Values
  PROVE  /\ Becomes(Assets[a], Translated(Assets[a], tr, v))
         /\ Reached(Assets[a], Translated(Assets[a], tr, v), tr)
<1> DEFINE A == Assets[a]
           L == Locations(A, tr.path)
<1>1. /\ tr.path \in NamePath /\ tr.path # <<>>
      /\ tr.nested \in NamePath /\ tr.nested # <<>>
      /\ tr.path \in Seq(RuleType)
  BY NamesOnly DEF Row
<1>2. 1 \in DOMAIN Translations(a) /\ Translations(a)[1] = tr
  OBVIOUS
<1>3. /\ Get(A, tr.path) # {}
      /\ \A p \in Get(A, tr.path) :
           /\ A[p] \in DOMAIN Yaml
           /\ \A q \in Locations(Yaml[A[p]], tr.nested) :
                q \in DOMAIN Yaml[A[p]] /\ Yaml[A[p]][q] = Placeholder
  BY <1>1, <1>2, RowsOverwriteNothing
<1>4. IsDocument(A)
  BY FilesAssumption
<1> HIDE DEF A
<1>5. PICK t \in Get(A, tr.path) : TRUE
  BY <1>3
<1>6. t \in DOMAIN A /\ L = {t} /\ Get(A, tr.path) = {t}
  <2>1. t \in DOMAIN A /\ t \in Position /\ Means(A, tr.path, t) /\ DOMAIN A \subseteq Position
    BY <1>1, <1>4, <1>5, GetMeans, DocumentFacts
  <2>2. \A p \in L : p \in Position /\ Means(A, tr.path, p)
    BY <1>1, <1>4, GetMeans
  <2>3. \A p \in L : p = t
    BY <1>1, <2>1, <2>2, OnePlace
  <2>4. t \in L
    BY <1>1, <1>4, <2>1, GetMeans
  <2>. QED
    BY <2>1, <2>3, <2>4 DEF Get
<1> DEFINE Y == Yaml[A[t]]
           M == Locations(Y, tr.nested)
           f == Set(Y, tr.nested, Leaf(v))
           u == Marshal(f)
           e == Set(A, tr.path, Leaf(u))
<1>7. MustGetString(A, tr.path) = A[t]
  BY <1>6 DEF MustGetString
<1>8. Translated(A, tr, v) = e
  BY <1>1, <1>7 DEF Translated
<1>9. /\ A[t] \in DOMAIN Yaml /\ IsDocument(Y)
      /\ \A q \in M : q \in DOMAIN Y /\ Y[q] = Placeholder
  BY <1>3, <1>6, YamlAssumption
<1>10. tr \in Rows
  BY <1>2 DEF Rows
<1>11. \E s \in DOMAIN Yaml : Yaml[s] = f
  BY <1>1, <1>9, <1>10, YamlAssumption
<1>12. u \in DOMAIN Yaml /\ Yaml[u] = f
  BY <1>11 DEF Marshal
<1> HIDE DEF Y, M, L, u
<1>13. v \in Given
  BY DEF Given
<1>14. \A q \in M : q \in DOMAIN Y /\ Y[q] \notin Node
  BY <1>9, AtomsApart
<1>15. /\ DOMAIN f = DOMAIN Y
       /\ \A q \in DOMAIN Y : f[q] = IF q \in M THEN v ELSE Y[q]
  BY <1>1, <1>9, <1>14, SetAtoms DEF M
<1> HIDE DEF f
<1>16. FilledIn(Y, f)
  BY <1>9, <1>13, <1>15 DEF FilledIn
<1>17. \A p \in L : p \in DOMAIN A /\ A[p] \notin Node
  BY <1>6, <1>9, AtomsApart
<1>18. /\ IsDocument(e) /\ DOMAIN e = DOMAIN A
       /\ \A p \in DOMAIN A : e[p] = IF p \in L THEN u ELSE A[p]
  BY <1>1, <1>4, <1>17, SetAtoms DEF L
<1> HIDE DEF e
<1>19. Becomes(A, e)
  BY <1>6, <1>9, <1>12, <1>16, <1>18 DEF Becomes, Y
<1>20. \A q \in M : f[q] \in Given
  BY <1>9, <1>13, <1>15
<1>21. e[t] = u
  BY <1>6, <1>18
<1>22. Reached(A, e, tr)
  BY <1>1, <1>6, <1>12, <1>20, <1>21 DEF Reached, M, Y
<1>. QED
  BY <1>8, <1>19, <1>22 DEF A

------------------------------------------------------------------------------
(* translateAsset() *)

(* What is true between two rows: the object is its file with values in    *)
(* place of placeholders, and the rows done have put theirs everywhere.    *)
TranslateInvariant ==
  /\ config \in Configs /\ asset \in DOMAIN Assets
  /\ i \in 0..Len(Translations(asset))
  /\ Becomes(Assets[asset], o)
  /\ \A j \in 1..i : Reached(Assets[asset], o, Translations(asset)[j])
  /\ i = 0 => o = Assets[asset]

LEMMA RowsKeepInvariant ==
  ASSUME TranslateInvariant, [TranslateNext]_translateVars
  PROVE  TranslateInvariant'
<1>1. CASE UNCHANGED translateVars
  BY <1>1 DEF translateVars, TranslateInvariant, Becomes, Reached
<1>2. CASE TranslateNext
  <2> DEFINE T == Translations(asset)
             A == Assets[asset]
             tr == T[i + 1]
             v == Template(tr.template)
  <2>1. /\ config \in Configs /\ asset \in DOMAIN Assets /\ i \in 0..Len(T)
        /\ Becomes(A, o) /\ \A j \in 1..i : Reached(A, o, T[j])
        /\ i = 0 => o = A
    BY DEF TranslateInvariant
  <2>2. i < Len(T) /\ o' = Translated(o, tr, v) /\ i' = i + 1 /\ config' = config /\ asset' = asset
    BY <1>2 DEF TranslateNext
  <2>3. IsDocument(A)
    BY <2>1, FilesAssumption
  <2>4. Becomes(A, o') /\ \A j \in 1..i + 1 : Reached(A, o', T[j])
    <3>1. CASE T \in Seq(PlainRow)
      <4>1. Len(T) \in Nat /\ DOMAIN T = 1..Len(T) /\ \A j \in 1..Len(T) : T[j] \in PlainRow
        BY <3>1, LenProperties, ElementOfSeq
      <4>2. i + 1 \in DOMAIN T /\ tr \in PlainRow
        BY <2>1, <2>2, <4>1
      <4>3. tr.nested = <<>> /\ v \in Given
        BY <2>1, <4>2, TemplateGiven DEF PlainRow, Row
      <4>4. \A p \in Locations(A, tr.path) : p \in DOMAIN A /\ A[p] = Placeholder
        BY <2>1, <4>2, <4>3, RowsOverwriteNothing
      <4>5. /\ Becomes(A, o') /\ Reached(A, o', tr)
            /\ \A r \in PlainRow : Reached(A, o, r) => Reached(A, o', r)
        <5> HIDE DEF A, tr, v
        <5>. QED
          BY <2>1, <2>2, <2>3, <4>2, <4>3, <4>4, PlainStep
      <4>6. \A j \in 1..i : T[j] \in PlainRow
        BY <2>1, <4>1
      <4>7. \A j \in 1..i + 1 : j \in 1..i \/ j = i + 1
        BY <2>1
      <4>. QED
        BY <2>1, <4>5, <4>6, <4>7
    <3>2. CASE \E r \in Row : /\ r.template \in StaticConfig /\ T = <<r>>
                              /\ r.nested # <<>>
      <4>1. PICK r \in Row : r.template \in StaticConfig /\ T = <<r>> /\ r.nested # <<>>
        BY <3>2
      <4>2. i = 0 /\ tr = r
        BY <2>1, <2>2, <4>1
      <4>3. o = A /\ v \in Values
        BY <2>1, <4>1, <4>2, TemplateGiven
      <4>4. Becomes(A, o') /\ Reached(A, o', r)
        BY <2>1, <2>2, <4>1, <4>2, <4>3, NestedStep
      <4>. QED
        BY <4>1, <4>2, <4>4
    <3>3. CASE \E r \in Row : T = <<r>> /\ r.nested = <<>>
      <4>1. PICK r \in Row : T = <<r>> /\ r.nested = <<>>
        BY <3>3
      <4>2. r \in PlainRow
        BY <4>1 DEF PlainRow
      <4>. QED
        BY <3>1, <4>1, <4>2
    <3>. QED
      BY <3>1, <3>2, <3>3, TableTyped
  <2>5. i + 1 \in 0..Len(T) /\ i + 1 # 0
    BY <2>1, <2>2, LenProperties, TableTyped
  <2>. QED
    BY <2>1, <2>2, <2>4, <2>5 DEF TranslateInvariant
<1>. QED
  BY <1>1, <1>2 DEF TranslateNext

LEMMA TranslateAlways == TranslateSpec => []TranslateInvariant
<1>1. TranslateInit => TranslateInvariant
  <2>. SUFFICES ASSUME TranslateInit PROVE TranslateInvariant
    OBVIOUS
  <2>1. /\ config \in Configs /\ asset \in DOMAIN Assets /\ o = Assets[asset] /\ i = 0
    BY DEF TranslateInit
  <2>2. Len(Translations(asset)) \in Nat
    BY TableTyped, LenProperties
  <2>3. IsDocument(Assets[asset])
    BY <2>1, FilesAssumption
  <2>. QED
    BY <2>1, <2>2, <2>3 DEF TranslateInvariant, Becomes
<1>2. TranslateInvariant /\ [TranslateNext]_translateVars => TranslateInvariant'
  BY RowsKeepInvariant
<1>. QED
  BY <1>1, <1>2, PTL DEF TranslateSpec

(* Where a document and its file can be compared, with the texts open.     *)
LEMMA OpenedBecomes ==
  ASSUME NEW A, IsDocument(A), NEW d, Becomes(A, d)
  PROVE  /\ DOMAIN Opened(A) = DOMAIN Opened(d)
         /\ \A p \in DOMAIN Opened(d) :
              \/ /\ p \in DOMAIN A /\ A[p] \notin DOMAIN Yaml
                 /\ Opened(A)[p] = A[p] /\ Opened(d)[p] = d[p]
              \/ \E t \in DOMAIN A : /\ A[t] \in DOMAIN Yaml /\ d[t] \in DOMAIN Yaml
                                     /\ FilledIn(Yaml[A[t]], Yaml[d[t]])
                   /\ \E q \in DOMAIN Yaml[A[t]] :
                        Opened(A)[p] = Yaml[A[t]][q] /\ Opened(d)[p] = Yaml[d[t]][q]
<1>1. IsDocument(d) /\ DOMAIN d = DOMAIN A
  BY DEF Becomes
<1>2. /\ YamlTexts(d) = YamlTexts(A)
      /\ \A p \in DOMAIN A : A[p] \in DOMAIN Yaml <=> d[p] \in DOMAIN Yaml
  BY <1>1, AtomsApart DEF Becomes, YamlTexts
<1>3. ASSUME NEW t \in YamlTexts(A)
      PROVE  /\ t \in DOMAIN A /\ A[t] \in DOMAIN Yaml /\ d[t] \in DOMAIN Yaml
             /\ FilledIn(Yaml[A[t]], Yaml[d[t]]) /\ DOMAIN Yaml[A[t]] = DOMAIN Yaml[d[t]]
  <2>1. t \in DOMAIN A /\ A[t] \in DOMAIN Yaml /\ d[t] \in DOMAIN Yaml
    BY <1>2 DEF YamlTexts
  <2>2. FilledIn(Yaml[A[t]], Yaml[d[t]])
    BY <2>1, AtomsApart DEF Becomes, FilledIn
  <2>. QED
    BY <2>1, <2>2 DEF FilledIn
<1>4. \A p : p \in DOMAIN Opened(A) <=>
        \/ p \in DOMAIN A /\ A[p] \notin DOMAIN Yaml
        \/ \E t \in YamlTexts(A) : \E q \in DOMAIN Yaml[A[t]] : p = t \o q
  BY OpenedIs
<1>5. \A p : p \in DOMAIN Opened(d) <=>
        \/ p \in DOMAIN d /\ d[p] \notin DOMAIN Yaml
        \/ \E t \in YamlTexts(d) : \E q \in DOMAIN Yaml[d[t]] : p = t \o q
  BY <1>1, OpenedIs
<1>6. \A p : p \in DOMAIN Opened(A) <=> p \in DOMAIN Opened(d)
  BY <1>1, <1>2, <1>3, <1>4, <1>5
<1>7. DOMAIN Opened(A) = DOMAIN Opened(d)
  BY <1>6
<1>8. ASSUME NEW p \in DOMAIN A, A[p] \notin DOMAIN Yaml
      PROVE  Opened(A)[p] = A[p] /\ Opened(d)[p] = d[p]
  BY <1>1, <1>2, <1>8, OpenedIs
<1>9. ASSUME NEW t \in YamlTexts(A), NEW q \in DOMAIN Yaml[A[t]]
      PROVE  /\ Opened(A)[t \o q] = Yaml[A[t]][q]
             /\ Opened(d)[t \o q] = Yaml[d[t]][q]
  <2>1. t \in YamlTexts(d) /\ q \in DOMAIN Yaml[d[t]]
    BY <1>2, <1>3
  <2>. QED
    BY <1>1, <2>1, OpenedIs
<1>10. ASSUME NEW p \in DOMAIN Opened(d)
       PROVE  \/ /\ p \in DOMAIN A /\ A[p] \notin DOMAIN Yaml
                 /\ Opened(A)[p] = A[p] /\ Opened(d)[p] = d[p]
              \/ \E t \in DOMAIN A : /\ A[t] \in DOMAIN Yaml /\ d[t] \in DOMAIN Yaml
                                     /\ FilledIn(Yaml[A[t]], Yaml[d[t]])
                   /\ \E q \in DOMAIN Yaml[A[t]] :
                        Opened(A)[p] = Yaml[A[t]][q] /\ Opened(d)[p] = Yaml[d[t]][q]
  <2>1. CASE p \in DOMAIN A /\ A[p] \notin DOMAIN Yaml
    BY <1>8, <2>1
  <2>2. CASE \E t \in YamlTexts(A) : \E q \in DOMAIN Yaml[A[t]] : p = t \o q
    <3>1. PICK t \in YamlTexts(A) : \E q \in DOMAIN Yaml[A[t]] : p = t \o q
      BY <2>2
    <3>. QED
      BY <1>3, <1>9, <3>1
  <2>. QED
    BY <1>4, <1>6, <2>1, <2>2
<1>. QED
  BY <1>7, <1>10

(* Whatever the Config says, translateAsset() adds nothing to an object    *)
(* and takes nothing from it, and what it changes was a placeholder, in    *)
(* the texts inside the object too, which it writes anew as a whole.       *)
THEOREM NothingElseChanges == TranslateSpec => []OnlyPlaceholdersChange
<1>1. TranslateInvariant => OnlyPlaceholdersChange
  <2>. SUFFICES ASSUME TranslateInvariant PROVE OnlyPlaceholdersChange
    OBVIOUS
  <2> DEFINE A == Assets[asset]
  <2>1. IsDocument(A) /\ Becomes(A, o)
    BY FilesAssumption DEF TranslateInvariant
  <2> HIDE DEF A
  <2>2. ASSUME NEW p \in DOMAIN Opened(A), Opened(A)[p] # Opened(o)[p]
        PROVE  Opened(A)[p] = Placeholder
    <3>1. CASE /\ p \in DOMAIN A /\ Opened(A)[p] = A[p] /\ Opened(o)[p] = o[p]
               /\ A[p] \notin DOMAIN Yaml
      BY <2>1, <2>2, <3>1 DEF Becomes
    <3>2. ASSUME NEW t \in DOMAIN A, FilledIn(Yaml[A[t]], Yaml[o[t]]),
                 NEW q \in DOMAIN Yaml[A[t]],
                 Opened(A)[p] = Yaml[A[t]][q], Opened(o)[p] = Yaml[o[t]][q]
          PROVE  Opened(A)[p] = Placeholder
      BY <2>2, <3>2 DEF FilledIn
    <3>. QED
      BY <2>1, <3>1, <3>2, OpenedBecomes
  <2>3. DOMAIN Opened(A) = DOMAIN Opened(o)
    BY <2>1, OpenedBecomes
  <2>. QED
    BY <2>2, <2>3 DEF OnlyPlaceholdersChange, A
<1>. QED
  BY <1>1, TranslateAlways, PTL

(* Whatever the Config says, the files and the table together leave no     *)
(* placeholder: each is where some row puts its value, and no later row    *)
(* takes that away.                                                        *)
THEOREM NoPlaceholderSurvives == TranslateSpec => []NoPlaceholderLeft
<1>1. TranslateInvariant => NoPlaceholderLeft
  <2>. SUFFICES ASSUME TranslateInvariant, Done,
                       NEW p \in DOMAIN Opened(o), Opened(o)[p] = Placeholder
                PROVE  FALSE
    BY DEF NoPlaceholderLeft
  <2> DEFINE A == Assets[asset]
             T == Translations(asset)
  <2>1. /\ asset \in DOMAIN Assets /\ IsDocument(A) /\ Becomes(A, o)
        /\ \A j \in 1..Len(T) : Reached(A, o, T[j])
    BY FilesAssumption DEF TranslateInvariant, Done
  <2>2. DOMAIN T = 1..Len(T)
    BY TableTyped, LenProperties
  <2>3. ASSUME p \in DOMAIN A, A[p] \notin DOMAIN Yaml, Opened(o)[p] = o[p]
        PROVE  FALSE
    <3>1. A[p] = Placeholder
      BY <2>1, <2>3, AtomsApart DEF Becomes
    <3>2. \E j \in DOMAIN T : T[j].nested = <<>> /\ p \in Locations(A, T[j].path)
      BY <2>1, <2>3, <3>1, RowsMissNothing
    <3>3. o[p] \in Given
      BY <2>1, <2>2, <3>2 DEF Reached
    <3>. QED
      BY <2>3, <3>3, AtomsApart
  <2>4. ASSUME NEW t \in DOMAIN A, A[t] \in DOMAIN Yaml,
               FilledIn(Yaml[A[t]], Yaml[o[t]]),
               NEW q \in DOMAIN Yaml[A[t]], Opened(o)[p] = Yaml[o[t]][q]
        PROVE  FALSE
    <3>1. Yaml[A[t]][q] = Placeholder
      BY <2>4, AtomsApart DEF FilledIn
    <3>2. \E j \in DOMAIN T : /\ T[j].nested # <<>> /\ t \in Get(A, T[j].path)
                              /\ q \in Locations(Yaml[A[t]], T[j].nested)
      BY <2>1, <2>4, <3>1, RowsMissNothing
    <3>3. Yaml[o[t]][q] \in Given
      BY <2>1, <2>2, <3>2 DEF Reached
    <3>. QED
      BY <2>4, <3>3, AtomsApart
  <2> HIDE DEF A, T
  <2>. QED
    BY <2>1, <2>3, <2>4, OpenedBecomes
<1>. QED
  BY <1>1, TranslateAlways, PTL

------------------------------------------------------------------------------
(* What a deletion leaves of what a path finds *)

(* A document with less in it. *)
Less(e, d) == DOMAIN e \subseteq DOMAIN d /\ \A q \in DOMAIN e : e[q] = d[q]

LEMMA CutTree ==
  ASSUME NEW d, Tree(d), NEW L \in SUBSET Position
  PROVE  /\ Tree(CutAt(d, L)) /\ Less(CutAt(d, L), d)
         /\ L = {} => CutAt(d, L) = d
<1> DEFINE e == CutAt(d, L)
<1>1. /\ DOMAIN e = {<<>>} \cup Kept(d, L)
      /\ \A q \in DOMAIN e : e[q] = d[q]
      /\ e = [q \in DOMAIN e |-> e[q]]
  BY CutFrame
<1>. HIDE DEF e
<1>2. Kept(d, L) \subseteq DOMAIN d /\ <<>> \in DOMAIN d /\ DOMAIN d \subseteq Position
  BY DEF Kept, Tree
<1>3. ASSUME NEW p \in DOMAIN e, p # <<>>
      PROVE  Parent(p) \in DOMAIN e /\ e[Parent(p)] \in Node
  <2>1. p \in Kept(d, L) /\ p \in Position
    BY <1>1, <1>2, <1>3
  <2>2. Parent(p) \in DOMAIN d /\ d[Parent(p)] \in Node
    BY <1>2, <1>3, <2>1 DEF Tree
  <2>3. Within(Parent(p), p) /\ Parent(p) \in Position
    BY <1>3, <2>1, Above
  <2>4. Parent(p) \in Kept(d, L)
    BY <2>1, <2>2, <2>3, WithinTransitive DEF Kept
  <2>. QED
    BY <1>1, <2>2, <2>4
<1>4. Tree(e)
  BY <1>1, <1>2, <1>3 DEF Tree
<1>5. L = {} => e = d
  <2>1. L = {} => Kept(d, L) = DOMAIN d
    BY DEF Kept
  <2>2. d = [q \in DOMAIN d |-> d[q]]
    BY DEF Tree
  <2>. QED
    BY <1>1, <1>2, <2>1, <2>2
<1>. QED
  BY <1>1, <1>2, <1>4, <1>5 DEF e, Less

LEMMA SubscriptLess ==
  ASSUME NEW d, NEW e, Less(e, d), NEW rule, NEW p
  PROVE  Subscript(e, rule, p) \subseteq Subscript(d, rule, p)
<1>. SUFFICES ASSUME p \in DOMAIN e, e[p] \in Node
              PROVE  Subscript(e, rule, p) \subseteq Subscript(d, rule, p)
  BY DEF Subscript
<1>1. p \in DOMAIN d /\ d[p] = e[p]
  BY DEF Less
<1>2. Children(e, p) \subseteq Children(d, p)
  BY DEF Children, Less
<1>3. DOMAIN e \subseteq DOMAIN d
  BY DEF Less
<1>. QED
  BY <1>1, <1>2, <1>3 DEF Subscript

(* The rules of a line: names and wildcards. *)
LEMMA CompiledIs ==
  ASSUME NEW keys \in Position
  PROVE  /\ Len(keys) \in Nat /\ Len(MustCompile(keys)) = Len(keys)
         /\ \A n \in 1..Len(keys) :
              /\ keys[n] \in Key
              /\ MustCompile(keys)[n] = IF keys[n] = Star THEN All ELSE Name(keys[n])
              /\ MustCompile(keys)[n].rule # "filter"
<1>1. keys \in [1..Len(keys) -> Key] /\ Len(keys) \in Nat /\ DOMAIN keys = 1..Len(keys)
  BY LenProperties DEF Position
<1>2. MustCompile(keys) = [n \in 1..Len(keys) |-> IF keys[n] = Star THEN All ELSE Name(keys[n])]
  BY <1>1 DEF MustCompile
<1>3. Len(MustCompile(keys)) = Len(keys)
  <2>. DEFINE S == {MustCompile(keys)[n] : n \in 1..Len(keys)}
  <2>1. MustCompile(keys) \in [1..Len(keys) -> S]
    BY <1>2
  <2>2. MustCompile(keys) \in Seq(S)
    BY <1>1, <2>1, SeqDef
  <2>. QED
    BY <1>1, <2>1, <2>2, LenProperties
<1>. QED
  BY <1>1, <1>2, <1>3 DEF All, Name

LEMMA GetLess ==
  ASSUME NEW d, NEW e, Less(e, d), NEW keys \in Position
  PROVE  Get(e, MustCompile(keys)) \subseteq Get(d, MustCompile(keys))
<1>. DEFINE rules == MustCompile(keys)
            N == Len(rules)
<1>1. N \in Nat /\ \A n \in 1..N : rules[n].rule # "filter"
  BY CompiledIs
<1>. HIDE DEF rules
<1>2. PICK f : Executed(e, rules, f)
  BY <1>1, LocationsSteps
<1>3. PICK g : Executed(d, rules, g)
  BY <1>1, LocationsSteps
<1>. DEFINE S == {n \in 0..N : f[n] \subseteq g[n]}
<1>4. 0 \in S
  BY <1>1, <1>2, <1>3 DEF Executed
<1>5. ASSUME NEW n \in 1..N, n - 1 \in S PROVE n \in S
  <2>1. f[n] = Execute(e, rules[n], f[n - 1]) /\ g[n] = Execute(d, rules[n], g[n - 1])
    BY <1>2, <1>3 DEF Executed
  <2>2. /\ f[n] = UNION {Subscript(e, rules[n], p) : p \in f[n - 1]}
        /\ g[n] = UNION {Subscript(d, rules[n], p) : p \in g[n - 1]}
    BY <1>1, <2>1 DEF Execute
  <2>3. f[n - 1] \subseteq g[n - 1]
    BY <1>5
  <2>4. \A p : Subscript(e, rules[n], p) \subseteq Subscript(d, rules[n], p)
    BY SubscriptLess
  <2>5. f[n] \subseteq g[n]
    BY <2>2, <2>3, <2>4
  <2>. QED
    BY <2>5
<1>6. N \in S
  <2>. HIDE DEF S
  <2>1. \A n \in 0..N : n \in S
    BY <1>1, <1>4, <1>5, UpTo
  <2>. QED
    BY <1>1, <2>1
<1>7. Locations(e, rules) \subseteq Locations(d, rules)
  BY <1>2, <1>3, <1>6 DEF Executed
<1>. QED
  BY <1>7 DEF Get, Less, rules

(* What a line finds has the keys the line names, or some other spelling   *)
(* of an index.                                                            *)
Fits(p, keys, n) ==
  /\ p \in Position /\ Len(p) = n
  /\ \A m \in 1..n : keys[m] = Star \/ Atoi(p[m]) = Atoi(keys[m])

LEMMA SubscriptFits ==
  ASSUME NEW d, Tree(d), NEW keys \in Position, NEW n \in 1..Len(keys),
         NEW p, Fits(p, keys, n - 1), NEW q \in Subscript(d, MustCompile(keys)[n], p)
  PROVE  Fits(q, keys, n)
<1>. DEFINE rule == MustCompile(keys)[n]
<1>1. /\ Len(keys) \in Nat /\ keys[n] \in Key
      /\ rule = IF keys[n] = Star THEN All ELSE Name(keys[n])
  BY CompiledIs
<1>2. /\ p \in DOMAIN d /\ p \in Position /\ Len(p) = n - 1
      /\ \A m \in 1..n - 1 : keys[m] = Star \/ Atoi(p[m]) = Atoi(keys[m])
  BY DEF Subscript, Fits
<1>3. DOMAIN d \subseteq Position
  BY DEF Tree
<1>4. \A k : Atoi(Atoi(k)) = Atoi(k)
  BY DEF Atoi
<1>5. ASSUME NEW k
      PROVE  /\ Len(Append(p, k)) = n /\ Append(p, k)[n] = k
             /\ \A m \in 1..n - 1 : Append(p, k)[m] = p[m]
             /\ k \in Key => Append(p, k) \in Position
  <2>. DEFINE S == Key \cup {k}
  <2>1. p \in Seq(S) /\ k \in S
    <3>1. Key \subseteq S
      OBVIOUS
    <3>. HIDE DEF S
    <3>2. p \in Seq(S)
      BY <1>2, <3>1, SeqMonotonic DEF Position
    <3>. QED
      BY <3>2 DEF S
  <2>. HIDE DEF S
  <2>2. /\ Len(Append(p, k)) = Len(p) + 1 /\ Append(p, k)[Len(p) + 1] = k
        /\ \A m \in 1..Len(p) : Append(p, k)[m] = p[m]
    BY <2>1, AppendProperties
  <2>3. k \in Key => Append(p, k) \in Position
    BY <1>2, AppendAbove
  <2>4. Len(p) = n - 1 /\ Len(p) + 1 = n
    BY <1>1, <1>2
  <2>. QED
    BY <2>2, <2>3, <2>4
<1>. HIDE DEF rule
<1>7. CASE keys[n] = Star
  <2>1. q \in Children(d, p)
    BY <1>1, <1>7 DEF Subscript, All, rule
  <2>2. q \in DOMAIN d /\ Len(q) = n /\ SubSeq(q, 1, n - 1) = p
    BY <1>2, <2>1 DEF Children, Below
  <2>3. q \in Position /\ \A m \in 1..n - 1 : SubSeq(q, 1, n - 1)[m] = q[m]
    BY <1>3, <2>2, Prefix
  <2>4. \A m \in 1..n - 1 : keys[m] = Star \/ Atoi(q[m]) = Atoi(keys[m])
    BY <1>2, <2>2, <2>3
  <2>5. \A m \in 1..n : m \in 1..n - 1 \/ m = n
    OBVIOUS
  <2>. QED
    BY <1>7, <2>2, <2>3, <2>4, <2>5 DEF Fits
<1>8. CASE keys[n] # Star
  <2>1. rule.rule = "name" /\ rule.key = keys[n]
    BY <1>1, <1>8 DEF Name
  <2>2. \E k : q = Append(p, k) /\ (k = keys[n] \/ (k = Atoi(keys[n]) /\ q \in DOMAIN d))
    BY <2>1 DEF Subscript, rule
  <2>3. PICK k : q = Append(p, k) /\ (k = keys[n] \/ (k = Atoi(keys[n]) /\ q \in DOMAIN d))
    BY <2>2
  <2>4. Atoi(k) = Atoi(keys[n])
    BY <1>4, <2>3
  <2>5. /\ q \in Position /\ Len(q) = n /\ q[n] = k
        /\ \A m \in 1..n - 1 : q[m] = p[m]
    BY <1>1, <1>3, <1>5, <2>3
  <2>6. \A m \in 1..n - 1 : keys[m] = Star \/ Atoi(q[m]) = Atoi(keys[m])
    BY <1>2, <2>5
  <2>7. \A m \in 1..n : m \in 1..n - 1 \/ m = n
    OBVIOUS
  <2>. QED
    BY <2>4, <2>5, <2>6, <2>7 DEF Fits
<1>. QED
  BY <1>7, <1>8

LEMMA GetFits ==
  ASSUME NEW d, Tree(d), NEW keys \in Position, NEW p \in Get(d, MustCompile(keys))
  PROVE  p \in DOMAIN d /\ Fits(p, keys, Len(keys))
<1>. DEFINE rules == MustCompile(keys)
            N == Len(rules)
<1>1. N \in Nat /\ N = Len(keys) /\ \A n \in 1..N : rules[n].rule # "filter"
  BY CompiledIs
<1>2. \A n \in 1..N : \A q : Fits(q, keys, n - 1) =>
        \A r \in Subscript(d, rules[n], q) : Fits(r, keys, n)
  BY <1>1, SubscriptFits
<1>3. p \in DOMAIN d /\ p \in Locations(d, rules)
  BY DEF Get
<1>. HIDE DEF rules
<1>4. PICK f : Executed(d, rules, f)
  BY <1>1, LocationsSteps
<1>. DEFINE S == {n \in 0..N : \A q \in f[n] : Fits(q, keys, n)}
<1>5. 0 \in S
  <2>1. <<>> \in Position /\ Len(<<>>) = 0
    BY EmptySeq DEF Position
  <2>2. Fits(<<>>, keys, 0)
    BY <2>1 DEF Fits
  <2>. QED
    BY <1>1, <1>4, <2>2 DEF Executed
<1>6. ASSUME NEW n \in 1..N, n - 1 \in S PROVE n \in S
  <2>1. f[n] = Execute(d, rules[n], f[n - 1])
    BY <1>4 DEF Executed
  <2>2. f[n] = UNION {Subscript(d, rules[n], q) : q \in f[n - 1]}
    BY <1>1, <2>1 DEF Execute
  <2>3. \A q \in f[n - 1] : Fits(q, keys, n - 1)
    BY <1>6
  <2>4. \A r \in f[n] : Fits(r, keys, n)
    BY <1>2, <2>2, <2>3
  <2>. QED
    BY <2>4
<1>7. N \in S
  <2>. HIDE DEF S
  <2>1. \A n \in 0..N : n \in S
    BY <1>1, <1>5, <1>6, UpTo
  <2>. QED
    BY <1>1, <2>1
<1>. QED
  BY <1>1, <1>3, <1>4, <1>7 DEF Executed

------------------------------------------------------------------------------
(* What a deletion leaves of what a line matches *)

LEMMA LineIs ==
  ASSUME NEW l \in Line
  PROVE  /\ l.path \in Position /\ Len(l.path) \in Nat \ {0}
         /\ l.is = Whatever \/ l.is = Leaf(l.is[<<>>])
<1>1. l.path \in Seq(STRING) /\ l.path # <<>> /\ l.is \in {Whatever} \cup [{<<>>} -> STRING]
  BY DEF Line
<1>2. l.path \in Position
  BY <1>1 DEF Position, Key
<1>3. Len(l.path) \in Nat \ {0}
  BY <1>1, <1>2, Root, LenProperties DEF Position
<1>4. l.is \in [{<<>>} -> STRING] => l.is = Leaf(l.is[<<>>])
  BY DEF Leaf
<1>. QED
  BY <1>1, <1>2, <1>3, <1>4

LEMMA MatchedIs ==
  ASSUME NEW d, Tree(d), NEW l \in Line, NEW p \in Matched(d, l)
  PROVE  /\ p \in Get(d, MustCompile(l.path)) /\ p \in DOMAIN d /\ p \in Position /\ p # <<>>
         /\ Fits(p, l.path, Len(l.path))
         /\ l.is # Whatever => SubDocument(d, p) = l.is
<1>1. p \in Get(d, MustCompile(l.path)) /\ (l.is # Whatever => SubDocument(d, p) = l.is)
  BY DEF Matched, Matching
<1>2. p \in DOMAIN d /\ Fits(p, l.path, Len(l.path))
  BY <1>1, LineIs, GetFits
<1>3. p # <<>>
  BY <1>2, LineIs, Root DEF Fits
<1>. QED
  BY <1>1, <1>2, <1>3 DEF Tree

(* The document below a position is a leaf if nothing else hangs there.    *)
LEMMA LeafBelow ==
  ASSUME NEW d, DOMAIN d \subseteq Position, NEW p \in DOMAIN d, NEW a
  PROVE  SubDocument(d, p) = Leaf(a) <=>
           d[p] = a /\ \A q \in DOMAIN d : Within(p, q) => q = p
<1>. DEFINE T == {s \in Position : p \o s \in DOMAIN d}
<1>1. SubDocument(d, p) = [s \in T |-> d[p \o s]]
  BY SubDocumentIs
<1>2. p \in Position /\ <<>> \in T /\ p \o <<>> = p
  <2>1. p \in Position
    OBVIOUS
  <2>. QED
    BY <2>1, Root
<1>3. T = {<<>>} <=> \A q \in DOMAIN d : Within(p, q) => q = p
  <2>1. ASSUME T = {<<>>}, NEW q \in DOMAIN d, Within(p, q) PROVE q = p
    <3>. DEFINE s == SubSeq(q, Len(p) + 1, Len(q))
    <3>1. s \in Position /\ p \o s = q
      BY <1>2, <2>1, Split
    <3>2. s \in T
      BY <3>1
    <3>. QED
      BY <1>2, <2>1, <3>1, <3>2
  <2>2. ASSUME \A q \in DOMAIN d : Within(p, q) => q = p, NEW s \in T PROVE s = <<>>
    <3>1. Within(p, p \o s) /\ Len(p \o s) = Len(p) + Len(s)
      BY <1>2, Joined
    <3>2. p \o s = p
      BY <2>2, <3>1
    <3>3. Len(p) \in Nat /\ Len(s) \in Nat
      BY <1>2, LenProperties DEF Position
    <3>4. Len(s) = 0
      BY <3>1, <3>2, <3>3
    <3>. QED
      BY <3>4, Root
  <2>3. (\A s \in T : s = <<>>) => T = {<<>>}
    BY <1>2
  <2>. QED
    BY <2>1, <2>2, <2>3
<1>. HIDE DEF T
<1>4. Leaf(a) = [s \in {<<>>} |-> a]
  BY DEF Leaf
<1>5. ASSUME SubDocument(d, p) = Leaf(a) PROVE T = {<<>>} /\ d[p] = a
  <2>1. DOMAIN SubDocument(d, p) = T /\ SubDocument(d, p)[<<>>] = d[p]
    BY <1>1, <1>2
  <2>2. DOMAIN Leaf(a) = {<<>>} /\ Leaf(a)[<<>>] = a
    BY <1>4
  <2>. QED
    BY <1>5, <2>1, <2>2
<1>6. ASSUME T = {<<>>}, d[p] = a PROVE SubDocument(d, p) = Leaf(a)
  BY <1>1, <1>2, <1>4, <1>6
<1>. QED
  BY <1>3, <1>5, <1>6

(* A deletion makes a line match only by emptying a map.                   *)
LEMMA MatchedLess ==
  ASSUME NEW d, Tree(d), NEW L \in SUBSET Position, NEW l \in Line,
         NodeLine(l) => \A p \in Get(d, MustCompile(l.path)), c \in L : Within(p, c) => c = p
  PROVE  Matched(CutAt(d, L), l) \subseteq Matched(d, l)
<1>. DEFINE e == CutAt(d, L)
<1>1. Tree(e) /\ Less(e, d) /\ DOMAIN e = {<<>>} \cup Kept(d, L)
  BY CutTree, CutFrame
<1>. HIDE DEF e
<1>. SUFFICES ASSUME NEW p \in Matched(e, l) PROVE p \in Matched(d, l)
  BY DEF e
<1>2. /\ p \in Get(e, MustCompile(l.path)) /\ p \in DOMAIN e /\ p \in Position /\ p # <<>>
      /\ l.is # Whatever => SubDocument(e, p) = l.is
  BY <1>1, MatchedIs
<1>3. p \in Get(d, MustCompile(l.path)) /\ p \in DOMAIN d /\ e[p] = d[p]
  BY <1>1, <1>2, LineIs, GetLess DEF Less
<1>4. CASE l.is = Whatever
  BY <1>3, <1>4 DEF Matched
<1>5. CASE l.is # Whatever
  <2>. DEFINE a == l.is[<<>>]
  <2>1. l.is = Leaf(a)
    BY <1>5, LineIs
  <2>2. DOMAIN d \subseteq Position /\ DOMAIN e \subseteq Position
    BY <1>1 DEF Tree
  <2>. HIDE DEF a
  <2>3. d[p] = a /\ \A q \in DOMAIN e : Within(p, q) => q = p
    BY <1>2, <1>3, <1>5, <2>1, <2>2, LeafBelow
  <2>4. ASSUME NEW q \in DOMAIN d, Within(p, q), q # p PROVE FALSE
    <3>1. d[p] \in Node
      BY <1>3, <2>4, NothingBelow
    <3>2. NodeLine(l)
      BY <1>5, <2>3, <3>1 DEF NodeLine, a
    <3>3. q \notin DOMAIN e
      BY <2>3, <2>4
    <3>4. PICK c \in L : Within(c, q)
      BY <1>1, <3>3 DEF Kept
    <3>5. c \in Position /\ q \in Position /\ Len(p) \in Nat /\ Len(c) \in Nat
      BY <1>2, <2>2, LenProperties DEF Position
    <3>6. ~Within(c, p)
      BY <1>1, <1>2 DEF Kept
    <3>7. CASE Len(p) <= Len(c)
      <4>1. Within(p, c)
        BY <1>2, <2>4, <3>4, <3>5, <3>7, WithinBoth
      <4>2. c = p
        BY <1>3, <3>2, <4>1
      <4>. QED
        BY <3>5, <3>6, <4>2, WithinSelf
    <3>8. CASE Len(c) <= Len(p)
      BY <1>2, <2>4, <3>4, <3>5, <3>6, <3>8, WithinBoth
    <3>. QED
      BY <3>5, <3>7, <3>8
  <2>5. SubDocument(d, p) = l.is
    BY <1>3, <2>1, <2>2, <2>3, <2>4, LeafBelow
  <2>. QED
    BY <1>3, <1>5, <2>5 DEF Matched, Matching
<1>. QED
  BY <1>4, <1>5

------------------------------------------------------------------------------
(* Stages of lines *)

Stripped(d, stages, at) ==
  /\ at[0] = d
  /\ \A n \in 1..Len(stages) : at[n] = StripStage(at[n - 1], stages[n])
  /\ Strip(d, stages) = at[Len(stages)]

LEMMA StripSteps ==
  ASSUME NEW d, NEW stages, Len(stages) \in Nat
  PROVE  \E at : Stripped(d, stages, at)
<1> DEFINE N == Len(stages)
           Step(n, e) == StripStage(e, stages[n])
           Fitting(m, f) == f = [n \in 0..m |-> IF n = 0 THEN d ELSE Step(n, f[n - 1])]
           S == {m \in 0..N : \E f : Fitting(m, f)}
           at == CHOOSE f : Fitting(N, f)
<1>1. Strip(d, stages) = at[N]
  BY Zenon DEF Strip
<1> HIDE DEF Step
<1>2. 0 \in S
  <2> DEFINE f == [n \in 0..0 |-> d]
  <2>1. f = [n \in 0..0 |-> IF n = 0 THEN d ELSE Step(n, f[n - 1])]
    OBVIOUS
  <2>2. Fitting(0, f)
    BY <2>1
  <2> HIDE DEF f, Fitting
  <2> QED
    BY <2>2
<1>3. ASSUME NEW n \in 1..N, n - 1 \in S PROVE n \in S
  <2>1. PICK f : Fitting(n - 1, f)
    BY <1>3
  <2> DEFINE g == [j \in 0..n |-> IF j = n THEN Step(n, f[n - 1]) ELSE f[j]]
  <2>2. ASSUME NEW j \in 0..n
        PROVE  g[j] = IF j = 0 THEN d ELSE Step(j, g[j - 1])
    <3>1. CASE j = 0
      BY <3>1, <2>1
    <3>2. CASE j = n
      BY <3>2
    <3>3. CASE j # 0 /\ j # n
      <4>1. j \in 0..n - 1 /\ j - 1 \in 0..n - 1 /\ j - 1 \in 0..n /\ j - 1 # n
        BY <3>3
      <4>2. f[j] = Step(j, f[j - 1])
        BY <4>1, <2>1, <3>3
      <4> QED
        BY <4>1, <4>2, <3>3
    <3> QED
      BY <3>1, <3>2, <3>3
  <2>3. g = [j \in 0..n |-> IF j = 0 THEN d ELSE Step(j, g[j - 1])]
    BY <2>2
  <2> HIDE DEF g
  <2>4. Fitting(n, g)
    BY <2>3
  <2> QED
    BY <2>4
<1>4. N \in S
  <2> HIDE DEF S
  <2>1. \A n \in 0..N : n \in S
    BY <1>2, <1>3, UpTo
  <2> QED
    BY <2>1
<1>5. \E f : Fitting(N, f)
  BY <1>4
<1>6. Fitting(N, at)
  BY <1>5, Zenon
<1> HIDE DEF at
<1>7. /\ at[0] = d
      /\ \A n \in 1..N : at[n] = Step(n, at[n - 1])
  BY <1>6
<1> QED
  BY <1>1, <1>7 DEF Step, Stripped


LEMMA StagesTyped ==
  ASSUME NEW stages \in Stages
  PROVE  Len(stages) \in Nat /\ DOMAIN stages = 1..Len(stages) /\ \A n \in 1..Len(stages) : stages[n] \subseteq Line
<1>1. stages \in [1..Len(stages) -> SUBSET Line] /\ Len(stages) \in Nat
  BY LenProperties DEF Stages
<1>. QED
  BY <1>1

LEMMA StripJoined ==
  ASSUME NEW d, NEW first \in Stages, NEW second \in Stages
  PROVE  /\ first \o second \in Stages
         /\ Strip(d, first \o second) = Strip(Strip(d, first), second)
<1>. DEFINE both == first \o second
            M == Len(first)
            N == Len(second)
<1>1. M \in Nat /\ N \in Nat
  BY StagesTyped
<1>2. /\ both \in Stages /\ Len(both) = M + N
      /\ \A n \in 1..M : both[n] = first[n]
      /\ \A n \in 1..N : both[M + n] = second[n]
  <2>1. /\ both \in Seq(SUBSET Line) /\ Len(both) = M + N
        /\ \A n \in 1..M + N : both[n] = IF n <= M THEN first[n] ELSE second[n - M]
    BY ConcatProperties DEF Stages
  <2>2. \A n \in 1..M : n \in 1..M + N /\ n <= M
    BY <1>1
  <2>3. \A n \in 1..N : M + n \in 1..M + N /\ ~(M + n <= M) /\ M + n - M = n
    BY <1>1
  <2>. QED
    BY <2>1, <2>2, <2>3 DEF Stages
<1>. HIDE DEF both
<1>3. PICK f : Stripped(d, first, f)
  BY <1>1, StripSteps
<1>4. PICK g : Stripped(Strip(d, first), second, g)
  BY <1>1, StripSteps
<1>5. PICK h : Stripped(d, both, h)
  <2>1. Len(both) \in Nat
    BY <1>2, StagesTyped
  <2>. QED
    BY <2>1, StripSteps
<1>6. h[M] = f[M]
  <2>. DEFINE S == {n \in 0..M : h[n] = f[n]}
  <2>1. 0 \in S
    BY <1>1, <1>3, <1>5 DEF Stripped
  <2>2. ASSUME NEW n \in 1..M, n - 1 \in S PROVE n \in S
    <3>1. n \in 1..Len(both)
      BY <1>1, <1>2
    <3>2. h[n] = StripStage(h[n - 1], first[n]) /\ f[n] = StripStage(f[n - 1], first[n])
      BY <1>2, <1>3, <1>5, <3>1 DEF Stripped
    <3>. QED
      BY <2>2, <3>2
  <2>. HIDE DEF S
  <2>3. \A n \in 0..M : n \in S
    BY <1>1, <2>1, <2>2, UpTo
  <2>4. M \in S
    BY <1>1, <2>3
  <2>. QED
    BY <2>4 DEF S
<1>7. h[M + N] = g[N]
  <2>. DEFINE S == {n \in 0..N : h[M + n] = g[n]}
  <2>1. 0 \in S
    <3>1. M + 0 = M /\ h[M] = Strip(d, first) /\ g[0] = Strip(d, first)
      BY <1>1, <1>3, <1>4, <1>6 DEF Stripped
    <3>. QED
      BY <1>1, <3>1
  <2>2. ASSUME NEW n \in 1..N, n - 1 \in S PROVE n \in S
    <3>1. M + n \in 1..Len(both) /\ (M + n) - 1 = M + (n - 1)
      BY <1>1, <1>2
    <3>2. h[M + n] = StripStage(h[(M + n) - 1], both[M + n])
      BY <1>5, <3>1 DEF Stripped
    <3>3. h[M + n] = StripStage(h[M + (n - 1)], second[n])
      BY <1>2, <3>1, <3>2
    <3>4. g[n] = StripStage(g[n - 1], second[n])
      BY <1>4 DEF Stripped
    <3>. QED
      BY <2>2, <3>3, <3>4
  <2>. HIDE DEF S
  <2>3. \A n \in 0..N : n \in S
    BY <1>1, <2>1, <2>2, UpTo
  <2>4. N \in S
    BY <1>1, <2>3
  <2>. QED
    BY <2>4 DEF S
<1>8. Strip(d, both) = Strip(Strip(d, first), second)
  BY <1>2, <1>4, <1>5, <1>7 DEF Stripped
<1>. QED
  BY <1>2, <1>8 DEF both

(* A line is spent when it matches nothing. *)
Spent(d, l) == Matched(d, l) = {}
AllSpent(d, stages) == \A n \in 1..Len(stages) : \A l \in stages[n] : Spent(d, l)

LEMMA StageTree ==
  ASSUME NEW d, Tree(d), NEW lines \in SUBSET Line
  PROVE  /\ UNION {Matched(d, l) : l \in lines} \subseteq Position
         /\ Tree(StripStage(d, lines)) /\ Less(StripStage(d, lines), d)
<1>1. UNION {Matched(d, l) : l \in lines} \subseteq Position
  BY MatchedIs
<1>. QED
  BY <1>1, CutTree DEF StripStage

(* A stage does its own lines and undoes none before it, if no line of it  *)
(* is under one that looks for an empty map.                               *)
LEMMA StageSpends ==
  ASSUME NEW d, Tree(d), NEW lines \in SUBSET Line, NEW l \in Line,
         l \in lines \/ Spent(d, l),
         NodeLine(l) => \A b \in lines : ~Under(l, b)
  PROVE  Spent(StripStage(d, lines), l)
<1>. DEFINE L == UNION {Matched(d, b) : b \in lines}
            e == CutAt(d, L)
<1>1. L \in SUBSET Position
  BY StageTree
<1>2. \A c \in L : \E b \in lines : c \in Matched(d, b)
  OBVIOUS
<1>3. l \in lines => Matched(d, l) \subseteq L
  OBVIOUS
<1>. HIDE DEF L
<1>4. ASSUME NodeLine(l), NEW p \in Get(d, MustCompile(l.path)), NEW c \in L, Within(p, c), c # p
      PROVE  FALSE
  <2>1. PICK b \in lines : c \in Matched(d, b)
    BY <1>2
  <2>2. b \in Line
    OBVIOUS
  <2>3. Fits(c, b.path, Len(b.path))
    BY <2>1, <2>2, MatchedIs
  <2>4. Fits(p, l.path, Len(l.path))
    BY LineIs, GetFits
  <2>5. Len(p) \in Nat /\ Len(c) \in Nat /\ p \in Position /\ c \in Position
    BY <2>3, <2>4, LenProperties DEF Position, Fits
  <2>6. Len(p) < Len(c) /\ \A n \in 1..Len(p) : c[n] = p[n]
    BY <1>4, <2>5, WithinMeans, WithinSameLength
  <2>7. Len(l.path) < Len(b.path)
    BY <2>3, <2>4, <2>6 DEF Fits
  <2>8. ASSUME NEW n \in DOMAIN l.path PROVE MayBe(l.path[n], b.path[n])
    <3>1. n \in 1..Len(l.path)
      BY LineIs, LenProperties DEF Position
    <3>2. n \in 1..Len(b.path) /\ c[n] = p[n]
      <4>1. Len(l.path) = Len(p) /\ Len(b.path) = Len(c)
        BY <2>3, <2>4 DEF Fits
      <4>. QED
        BY <2>5, <2>6, <3>1, <4>1
    <3>3. l.path[n] = Star \/ Atoi(p[n]) = Atoi(l.path[n])
      BY <2>4, <3>1 DEF Fits
    <3>4. b.path[n] = Star \/ Atoi(c[n]) = Atoi(b.path[n])
      BY <2>3, <3>2 DEF Fits
    <3>. QED
      BY <3>2, <3>3, <3>4 DEF MayBe
  <2>. QED
    BY <1>4, <2>7, <2>8, LineIs DEF Under, Over
<1>5. Matched(e, l) \subseteq Matched(d, l)
  BY <1>1, <1>4, MatchedLess
<1>6. ASSUME NEW p \in Matched(e, l) PROVE FALSE
  <2>1. p \in Matched(d, l) /\ l \in lines
    BY <1>5, <1>6 DEF Spent
  <2>2. p \in L
    BY <1>3, <2>1
  <2>3. Tree(e)
    BY <1>1, CutTree
  <2>4. p \in DOMAIN e /\ p # <<>> /\ p \in Position
    BY <1>6, <2>3, MatchedIs
  <2>5. p \in Kept(d, L)
    <3>1. DOMAIN e = {<<>>} \cup Kept(d, L)
      BY CutFrame
    <3>. HIDE DEF e
    <3>. QED
      BY <2>4, <3>1
  <2>. QED
    BY <2>2, <2>4, <2>5, WithinSelf DEF Kept
<1>7. StripStage(d, lines) = e
  BY DEF StripStage, L
<1>. QED
  BY <1>6, <1>7 DEF Spent

LEMMA StripSpends ==
  ASSUME NEW d, Tree(d), NEW stages, Orderly(stages)
  PROVE  /\ Tree(Strip(d, stages)) /\ Less(Strip(d, stages), d)
         /\ AllSpent(Strip(d, stages), stages)
<1>. DEFINE N == Len(stages)
<1>1. /\ N \in Nat /\ DOMAIN stages = 1..N
      /\ \A n \in 1..N : stages[n] \subseteq Line
  BY StagesTyped DEF Orderly, Stages
<1>2. ASSUME NEW m \in 1..N, NEW n \in m..N, NEW l \in stages[m], NodeLine(l), NEW b \in stages[n]
      PROVE  ~Under(l, b)
  BY <1>1, <1>2 DEF Orderly
<1>3. PICK at : Stripped(d, stages, at)
  BY <1>1, StripSteps
<1>. DEFINE Fine(n) == /\ Tree(at[n]) /\ Less(at[n], d)
                       /\ \A m \in 1..n : \A l \in stages[m] : Spent(at[n], l)
            S == {n \in 0..N : Fine(n)}
<1>4. 0 \in S
  <2>1. at[0] = d
    BY <1>3 DEF Stripped
  <2>2. Less(d, d)
    BY DEF Less
  <2>. QED
    BY <1>1, <2>1, <2>2
<1>5. ASSUME NEW n \in 1..N, n - 1 \in S PROVE n \in S
  <2>1. at[n] = StripStage(at[n - 1], stages[n])
    BY <1>3 DEF Stripped
  <2>2. /\ Tree(at[n - 1]) /\ Less(at[n - 1], d)
        /\ \A m \in 1..n - 1 : \A l \in stages[m] : Spent(at[n - 1], l)
    BY <1>5
  <2>3. stages[n] \in SUBSET Line
    BY <1>1
  <2>4. Tree(at[n]) /\ Less(at[n], d)
    BY <2>1, <2>2, <2>3, StageTree DEF Less
  <2>5. ASSUME NEW m \in 1..n, NEW l \in stages[m] PROVE Spent(at[n], l)
    <3>1. m \in 1..N /\ n \in m..N /\ (m \in 1..n - 1 \/ m = n)
      BY <1>1
    <3>2. l \in Line
      BY <1>1, <3>1
    <3>3. l \in stages[n] \/ Spent(at[n - 1], l)
      BY <2>2, <3>1
    <3>4. NodeLine(l) => \A b \in stages[n] : ~Under(l, b)
      BY <1>2, <3>1
    <3>. QED
      BY <2>1, <2>2, <2>3, <3>2, <3>3, <3>4, StageSpends
  <2>. QED
    BY <2>4, <2>5
<1>6. N \in S
  <2>. HIDE DEF S
  <2>1. \A n \in 0..N : n \in S
    BY <1>1, <1>4, <1>5, UpTo
  <2>. QED
    BY <1>1, <2>1
<1>7. Strip(d, stages) = at[N]
  BY <1>3 DEF Stripped
<1>. QED
  BY <1>6, <1>7 DEF AllSpent

(* Lines that are spent strip nothing.                                      *)
LEMMA StripNothing ==
  ASSUME NEW d, Tree(d), NEW stages \in Stages, AllSpent(d, stages)
  PROVE  Strip(d, stages) = d
<1>. DEFINE N == Len(stages)
<1>1. N \in Nat
  BY StagesTyped
<1>2. PICK at : Stripped(d, stages, at)
  BY <1>1, StripSteps
<1>. DEFINE S == {n \in 0..N : at[n] = d}
<1>3. 0 \in S
  BY <1>1, <1>2 DEF Stripped
<1>4. ASSUME NEW n \in 1..N, n - 1 \in S PROVE n \in S
  <2>1. at[n] = StripStage(d, stages[n])
    BY <1>2, <1>4 DEF Stripped
  <2>2. UNION {Matched(d, l) : l \in stages[n]} = {}
    BY DEF AllSpent, Spent
  <2>3. at[n] = CutAt(d, {})
    BY <2>1, <2>2 DEF StripStage
  <2>. QED
    BY <2>3, CutTree
<1>5. N \in S
  <2>. HIDE DEF S
  <2>1. \A n \in 0..N : n \in S
    BY <1>1, <1>3, <1>4, UpTo
  <2>. QED
    BY <1>1, <2>1
<1>. QED
  BY <1>2, <1>5 DEF Stripped

------------------------------------------------------------------------------
(* The lines of the kinds *)

LEMMA LinesOfKinds ==
  ASSUME NEW k
  PROVE  /\ CleanLines(k) \in Stages /\ DefaultLines(k) \in Stages
         /\ CleanMetadata(<<>>) \in Stages /\ StatusLines \in Stages
         /\ StatusLines \o CleanLines(k) \in Stages
         /\ (StatusLines \o CleanLines(k)) \o CleanMetadata(<<>>) \in Stages
         /\ Orderly(NormalLines(k))
<1>1. /\ CleanLines(k) \in Stages /\ DefaultLines(k) \in Stages
      /\ Orderly(NormalLines(k))
  <2>1. CASE k \in Kinds
    BY <2>1, LinesAssumption
  <2>2. CASE k \notin Kinds
    <3>1. CleanLines(k) = <<>> /\ CleanLines("ConfigMap") = <<>>
      BY <2>2 DEF CleanLines, Kinds
    <3>2. DefaultLines(k) = <<>> /\ DefaultLines("ConfigMap") = <<>>
      BY <2>2 DEF DefaultLines, Kinds
    <3>3. NormalLines(k) = NormalLines("ConfigMap")
      BY <3>1, <3>2 DEF NormalLines
    <3>4. "ConfigMap" \in Kinds
      BY DEF Kinds
    <3>. QED
      BY <3>1, <3>2, <3>3, <3>4, LinesAssumption
  <2>. QED
    BY <2>1, <2>2
<1>2. CleanMetadata(<<>>) \in Stages /\ StatusLines \in Stages
  BY LinesAssumption DEF Orderly
<1>3. StatusLines \o CleanLines(k) \in Stages
  BY <1>1, <1>2, StripJoined
<1>4. (StatusLines \o CleanLines(k)) \o CleanMetadata(<<>>) \in Stages
  BY <1>2, <1>3, StripJoined
<1>. QED
  BY <1>1, <1>2, <1>3, <1>4

(* What clean() and defaults() do to a kind they have only lines for.      *)
LEMMA LinesInOrder ==
  ASSUME NEW d, NEW k
  PROVE  Strip(d, NormalLines(k)) =
           Strip(Strip(Strip(d, StatusLines \o CleanLines(k)), CleanMetadata(<<>>)), DefaultLines(k))
<1>1. Strip(d, (StatusLines \o CleanLines(k)) \o CleanMetadata(<<>>)) =
        Strip(Strip(d, StatusLines \o CleanLines(k)), CleanMetadata(<<>>))
  BY LinesOfKinds, StripJoined
<1>2. Strip(d, NormalLines(k)) =
        Strip(Strip(d, (StatusLines \o CleanLines(k)) \o CleanMetadata(<<>>)), DefaultLines(k))
  BY LinesOfKinds, StripJoined DEF NormalLines
<1>. QED
  BY <1>1, <1>2

LEMMA PlainStable ==
  ASSUME NEW d, Tree(d), NEW k, k \notin {"Secret", "Service", "ServiceAccount"}
  PROVE  Existing(k, Existing(k, d)) = Existing(k, d)
<1>1. \A e : Existing(k, e) = Strip(e, NormalLines(k))
  BY LinesInOrder DEF Existing, Clean, Defaults
<1>2. /\ Tree(Strip(d, NormalLines(k)))
      /\ AllSpent(Strip(d, NormalLines(k)), NormalLines(k))
  BY LinesOfKinds, StripSpends
<1>3. NormalLines(k) \in Stages
  BY LinesOfKinds DEF Orderly
<1>. QED
  BY <1>1, <1>2, <1>3, StripNothing

------------------------------------------------------------------------------
(* Services *)

(* Every port of a Service has its number, or defaults() panics.           *)
Numbered(d) == \A p \in Get(d, MustCompile(Ports)) : Append(p, "port") \in DOMAIN d

(* What stages of lines take away hangs where one of them points.          *)
LEMMA StripKeeps ==
  ASSUME NEW d, Tree(d), NEW stages \in Stages, NEW q \in DOMAIN d,
         \A n \in 1..Len(stages), l \in Line : l \in stages[n] =>
            \A c \in Position : Fits(c, l.path, Len(l.path)) => ~Within(c, q)
  PROVE  q \in DOMAIN Strip(d, stages)
<1>. DEFINE N == Len(stages)
<1>1. N \in Nat /\ \A n \in 1..N : stages[n] \subseteq Line
  BY StagesTyped
<1>2. PICK at : Stripped(d, stages, at)
  BY <1>1, StripSteps
<1>. DEFINE S == {n \in 0..N : Tree(at[n]) /\ q \in DOMAIN at[n]}
<1>3. 0 \in S
  BY <1>1, <1>2 DEF Stripped
<1>4. ASSUME NEW n \in 1..N, n - 1 \in S PROVE n \in S
  <2>. DEFINE e == at[n - 1]
              L == UNION {Matched(e, l) : l \in stages[n]}
  <2>1. Tree(e) /\ q \in DOMAIN e
    BY <1>4
  <2>2. at[n] = CutAt(e, L)
    BY <1>2 DEF Stripped, StripStage
  <2>3. Tree(at[n])
    BY <1>1, <1>2, <2>1, StageTree DEF Stripped
  <2>. HIDE DEF e
  <2>4. ASSUME NEW c \in L PROVE ~Within(c, q)
    <3>1. PICK l \in stages[n] : c \in Matched(e, l)
      OBVIOUS
    <3>2. l \in Line
      BY <1>1
    <3>3. c \in Position /\ Fits(c, l.path, Len(l.path))
      BY <2>1, <3>1, <3>2, MatchedIs
    <3>. QED
      BY <3>2, <3>3
  <2>. HIDE DEF L
  <2>5. q \in Kept(e, L)
    BY <2>1, <2>4 DEF Kept
  <2>6. q \in DOMAIN CutAt(e, L)
    <3>1. DOMAIN CutAt(e, L) = {<<>>} \cup Kept(e, L)
      BY CutFrame
    <3>. QED
      BY <2>5, <3>1
  <2>. QED
    BY <2>2, <2>3, <2>6
<1>5. N \in S
  <2>. HIDE DEF S
  <2>1. \A n \in 0..N : n \in S
    BY <1>1, <1>3, <1>4, UpTo
  <2>. QED
    BY <1>1, <2>1
<1>. QED
  BY <1>2, <1>5 DEF Stripped

(* Where a port of a Service is, and what is in it.                        *)
LEMMA PortFits ==
  ASSUME NEW d, Tree(d), NEW p \in Get(d, MustCompile(Ports)), NEW k \in {"port", "targetPort"}
  PROVE  LET q == Append(p, k) IN
         /\ q \in Position /\ q # <<>>
         /\ Fits(q, Append(Ports, k), Len(Append(Ports, k)))
<1>. DEFINE q == Append(p, k)
            keys == Append(Ports, k)
<1>1. Ports \in Position /\ keys \in Position
  BY LinesAssumption DEF Position, Key, Number, Target
<1>2. p \in DOMAIN d /\ Fits(p, Ports, Len(Ports))
  BY <1>1, GetFits
<1>3. p \in Position /\ Len(p) = Len(Ports) /\ Len(Ports) \in Nat
      /\ \A m \in 1..Len(Ports) : Ports[m] = Star \/ Atoi(p[m]) = Atoi(Ports[m])
  BY <1>1, <1>2, LenProperties DEF Fits, Position
<1>. HIDE DEF q, keys
<1>4. keys # <<>> /\ Parent(keys) = Ports /\ Last(keys) = k /\ k \in Key
  <2>1. keys # <<>> /\ Parent(keys) = Ports /\ Last(keys) = k
    BY <1>1, AppendAbove DEF keys
  <2>2. Last(keys) \in Key
    BY <1>1, <2>1, Above
  <2>. QED
    BY <2>1, <2>2
<1>5. /\ Len(keys) = Len(Ports) + 1 /\ keys[Len(Ports) + 1] = k
      /\ \A m \in 1..Len(Ports) : keys[m] = Ports[m]
  BY <1>1, <1>4, AppendProperties DEF keys, Position
<1>6. /\ q \in Position /\ q # <<>> /\ Len(q) = Len(p) + 1 /\ q[Len(p) + 1] = k
      /\ \A m \in 1..Len(p) : q[m] = p[m]
  BY <1>3, <1>4, AppendProperties, AppendAbove DEF q, Position
<1>7. \A m \in 1..Len(keys) : keys[m] = Star \/ Atoi(q[m]) = Atoi(keys[m])
  <2>1. \A m \in 1..Len(keys) : m \in 1..Len(Ports) \/ m = Len(Ports) + 1
    BY <1>3, <1>5
  <2>2. \A m \in 1..Len(Ports) : keys[m] = Star \/ Atoi(q[m]) = Atoi(keys[m])
    BY <1>3, <1>5, <1>6
  <2>. QED
    BY <1>3, <1>5, <1>6, <2>1, <2>2
<1>8. Fits(q, keys, Len(keys))
  BY <1>3, <1>5, <1>6, <1>7 DEF Fits
<1>. QED
  BY <1>6, <1>8 DEF q, keys

(* A line whose positions a port's field is in is over that field.         *)
LEMMA FitsOver ==
  ASSUME NEW l \in Line, NEW c \in Position, Fits(c, l.path, Len(l.path)),
         NEW keys \in Position, NEW q \in Position, Fits(q, keys, Len(keys)), Within(c, q)
  PROVE  Over(l, keys)
<1>1. Len(c) = Len(l.path) /\ Len(q) = Len(keys) /\ DOMAIN l.path = 1..Len(l.path)
  BY LineIs, LenProperties DEF Fits, Position
<1>2. Len(c) <= Len(q) /\ \A m \in 1..Len(c) : q[m] = c[m]
  BY WithinMeans
<1>3. Len(c) \in Nat /\ Len(q) \in Nat
  BY LenProperties DEF Position
<1>4. ASSUME NEW m \in DOMAIN l.path PROVE MayBe(l.path[m], keys[m])
  <2>1. m \in 1..Len(l.path) /\ m \in 1..Len(keys) /\ q[m] = c[m]
    BY <1>1, <1>2, <1>3
  <2>2. l.path[m] = Star \/ Atoi(c[m]) = Atoi(l.path[m])
    BY <2>1 DEF Fits
  <2>3. keys[m] = Star \/ Atoi(q[m]) = Atoi(keys[m])
    BY <2>1 DEF Fits
  <2>. QED
    BY <2>1, <2>2, <2>3 DEF MayBe
<1>. QED
  BY <1>1, <1>2, <1>4 DEF Over

LEMMA ServiceStable ==
  ASSUME NEW d, Tree(d), Numbered(d)
  PROVE  Existing("Service", Existing("Service", d)) = Existing("Service", d)
<1>. DEFINE lines == NormalLines("Service")
            e == Strip(d, lines)
            T == SamePorts(e)
            y == CutAt(e, T)
<1>1. \A x : Existing("Service", x) = CutAt(Strip(x, lines), SamePorts(Strip(x, lines)))
  BY LinesInOrder DEF Existing, Clean, Defaults
<1>2. /\ Orderly(lines) /\ lines \in Stages
      /\ \A n \in 1..Len(lines) : lines[n] \subseteq Line
      /\ DOMAIN lines = 1..Len(lines)
  BY LinesOfKinds, StagesTyped DEF Orderly
<1>3. /\ Number \in Position /\ Target \in Position /\ Ports \in Position
      /\ \A n \in 1..Len(lines) : \A l \in lines[n] : ~Over(l, Number) /\ ~Over(l, Target)
  BY <1>2, LinesAssumption DEF Position, Key
<1>. HIDE DEF lines
<1>4. Tree(e) /\ Less(e, d) /\ AllSpent(e, lines)
  BY <1>2, StripSpends
<1>5. ASSUME NEW p \in Get(e, MustCompile(Ports))
      PROVE  Append(p, "port") \in DOMAIN e
  <2>. DEFINE q == Append(p, "port")
  <2>1. p \in Get(d, MustCompile(Ports))
    BY <1>3, <1>4, <1>5, GetLess
  <2>2. q \in DOMAIN d
    BY <2>1 DEF Numbered
  <2>3. q \in Position /\ Fits(q, Number, Len(Number))
    BY <2>1, PortFits DEF Number
  <2>. HIDE DEF q
  <2>4. ASSUME NEW n \in 1..Len(lines), NEW l \in Line, l \in lines[n],
               NEW c \in Position, Fits(c, l.path, Len(l.path)), Within(c, q)
        PROVE  FALSE
    BY <1>3, <2>3, <2>4, FitsOver
  <2>5. q \in DOMAIN e
    BY <1>2, <2>2, <2>4, StripKeeps
  <2>. QED
    BY <2>5 DEF q
<1>. HIDE DEF e
<1>6. ASSUME NEW c \in T
      PROVE  /\ c \in Position /\ c # <<>> /\ Fits(c, Target, Len(Target))
             /\ \E p \in Get(e, MustCompile(Ports)) : c = Append(p, "targetPort")
  <2>1. PICK p \in Get(e, MustCompile(Ports)) : c = Append(p, "targetPort")
    BY DEF SamePorts
  <2>. QED
    BY <1>4, <2>1, PortFits DEF Target
<1>7. Tree(y) /\ Less(y, e)
  BY <1>4, <1>6, CutTree
<1>8. ASSUME NEW n \in 1..Len(lines), NEW l \in lines[n] PROVE Spent(y, l)
  <2>1. l \in Line /\ Spent(e, l)
    BY <1>2, <1>4 DEF AllSpent
  <2>2. ASSUME NEW p \in Get(e, MustCompile(l.path)), NEW c \in T, Within(p, c) PROVE FALSE
    <3>1. p \in Position /\ Fits(p, l.path, Len(l.path))
      BY <1>4, <2>1, LineIs, GetFits DEF Fits
    <3>. QED
      BY <1>3, <1>6, <2>1, <2>2, <3>1, FitsOver
  <2>. HIDE DEF T
  <2>3. T \in SUBSET Position
    BY <1>6
  <2>4. Matched(CutAt(e, T), l) \subseteq Matched(e, l)
    BY <1>4, <2>1, <2>2, <2>3, MatchedLess
  <2>. QED
    BY <2>1, <2>4 DEF Spent
<1>9. SamePorts(y) = {}
  <2>. SUFFICES ASSUME NEW p \in Get(y, MustCompile(Ports)),
                       Append(p, "targetPort") \in DOMAIN y,
                       y[Append(p, "targetPort")] = y[Append(p, "port")]
                PROVE  FALSE
    BY DEF SamePorts
  <2>. DEFINE num == Append(p, "port")
              tgt == Append(p, "targetPort")
  <2>1. p \in Get(e, MustCompile(Ports))
    BY <1>3, <1>7, GetLess
  <2>2. num \in DOMAIN e /\ num \in Position /\ num # <<>>
    BY <1>4, <1>5, <2>1, PortFits
  <2>3. tgt \in Position /\ tgt # <<>>
    BY <1>4, <2>1, PortFits
  <2>4. p \in Position
    BY <1>3, <1>4, <2>1, GetFits DEF Fits
  <2>5. ASSUME NEW c \in T, Within(c, num) PROVE FALSE
    <3>1. PICK r \in Get(e, MustCompile(Ports)) : c = Append(r, "targetPort")
      BY <1>6
    <3>2. r \in Position /\ Len(r) = Len(Ports) /\ Len(p) = Len(Ports)
      BY <1>3, <1>4, <2>1, GetFits DEF Fits
    <3>3. c \in Position /\ c # <<>> /\ Parent(c) = r /\ Last(c) = "targetPort"
      BY <1>6, <3>1, <3>2, AppendAbove
    <3>4. Parent(num) = p /\ Last(num) = "port"
      BY <2>4, AppendAbove
    <3>5. Len(c) \in Nat /\ Len(num) \in Nat /\ Len(c) - 1 = Len(r) /\ Len(num) - 1 = Len(p)
      BY <2>2, <3>3, <3>4, Above, LenProperties DEF Position
    <3>6. Len(c) = Len(num)
      BY <3>2, <3>5
    <3>7. c = num
      BY <2>2, <2>5, <3>3, <3>6, WithinSameLength
    <3>. QED
      BY <3>3, <3>4, <3>7
  <2>6. DOMAIN y = {<<>>} \cup Kept(e, T) /\ \A q \in DOMAIN y : y[q] = e[q]
    BY CutFrame
  <2>. HIDE DEF y, num, tgt
  <2>7. num \in DOMAIN y
    BY <2>2, <2>5, <2>6 DEF Kept
  <2>8. tgt \in Kept(e, T) /\ tgt \in DOMAIN e /\ e[tgt] = e[num]
    <3>1. tgt \in DOMAIN y /\ y[tgt] = y[num]
      BY DEF tgt, num
    <3>. QED
      BY <2>3, <2>6, <2>7, <3>1 DEF Kept
  <2>9. tgt \in T
    BY <2>1, <2>8 DEF SamePorts, tgt, num
  <2>. QED
    BY <2>3, <2>8, <2>9, WithinSelf DEF Kept
<1>10. Strip(y, lines) = y
  BY <1>2, <1>7, <1>8, StripNothing DEF AllSpent
<1>11. CutAt(y, {}) = y
  BY <1>7, CutTree
<1>12. Existing("Service", d) = y
  BY <1>1 DEF e
<1>. HIDE DEF y
<1>13. Existing("Service", y) = y
  BY <1>1, <1>9, <1>10, <1>11
<1>. QED
  BY <1>12, <1>13

------------------------------------------------------------------------------
(* Secrets *)

LEMMA PutTree ==
  ASSUME NEW d, Tree(d), NEW x, Tree(x), NEW l \in Position, l # <<>>,
         Parent(l) \in DOMAIN d, d[Parent(l)] \in Node
  PROVE  LET e == PutAt(d, {l}, x) IN
         /\ Tree(e)
         /\ \A q \in DOMAIN e : ~Within(l, q) => q \in DOMAIN d /\ e[q] = d[q]
<1>. DEFINE L == {l}
            n == Len(l)
            e == PutAt(d, L, x)
<1>1. n \in Nat \ {0} /\ L \in SUBSET Position /\ \A m \in L : Len(m) = n
  BY Root, LenProperties DEF Position
<1>2. /\ DOMAIN d \subseteq Position /\ <<>> \in DOMAIN d
      /\ DOMAIN x \subseteq Position /\ <<>> \in DOMAIN x
  BY DEF Tree
<1>. HIDE DEF L, n
<1>3. DOMAIN e \subseteq Position /\ \A m \in L, s \in DOMAIN x : m \o s \in DOMAIN e
  BY <1>1, <1>2, PutPositions
<1>4. DOMAIN e = {<<>>} \cup Kept(d, L) \cup Put(L, x) /\ e = [q \in DOMAIN e |-> e[q]]
  BY PutDomain
<1>5. DOMAIN CutAt(d, L) = {<<>>} \cup Kept(d, L)
  BY CutFrame
<1>6. /\ \A q \in {<<>>} \cup Kept(d, L) : e[q] = d[q]
      /\ \A m \in L, s \in DOMAIN x : e[m \o s] = x[s]
  BY <1>1, <1>2, <1>5, PutFrame
<1>. HIDE DEF e
<1>7. l \in L /\ \A m \in L : m = l
  BY DEF L
<1>8. Parent(l) \in {<<>>} \cup Kept(d, L)
  <2>1. Parent(l) \in Position /\ Len(Parent(l)) = Len(l) - 1 /\ Len(l) \in Nat
    BY Above, LenProperties DEF Position
  <2>2. ~Within(l, Parent(l))
    BY <2>1, WithinMeans
  <2>. QED
    BY <1>7, <2>2 DEF Kept
<1>9. ASSUME NEW q \in Put(L, x)
      PROVE  \E s \in DOMAIN x : s \in Position /\ q = l \o s
  <2>1. PICK m \in L : \E s \in DOMAIN x : q = m \o s
    BY <1>9, PutMember
  <2>. QED
    BY <1>2, <1>7, <2>1
<1>10. ASSUME NEW p \in DOMAIN e, p # <<>>
       PROVE  Parent(p) \in DOMAIN e /\ e[Parent(p)] \in Node
  <2>1. CASE p \in Kept(d, L)
    <3>1. p \in DOMAIN d /\ p \in Position
      BY <1>2, <2>1 DEF Kept
    <3>2. Parent(p) \in DOMAIN d /\ d[Parent(p)] \in Node
      BY <1>10, <3>1 DEF Tree
    <3>3. Within(Parent(p), p) /\ Parent(p) \in Position
      BY <1>10, <3>1, Above
    <3>4. Parent(p) \in Kept(d, L)
      BY <1>7, <2>1, <3>1, <3>2, <3>3, WithinTransitive DEF Kept
    <3>. QED
      BY <1>4, <1>6, <3>2, <3>4
  <2>2. CASE p \in Put(L, x)
    <3>1. PICK s \in DOMAIN x : s \in Position /\ p = l \o s
      BY <1>9, <2>2
    <3>2. CASE s = <<>>
      <4>1. p = l
        BY <3>1, <3>2, Root
      <4>. QED
        BY <1>4, <1>6, <1>8, <4>1
    <3>3. CASE s # <<>>
      <4>1. Parent(p) = l \o Parent(s) /\ Parent(s) \in DOMAIN x /\ x[Parent(s)] \in Node
        BY <3>1, <3>3, JoinedAbove DEF Tree
      <4>. QED
        BY <1>3, <1>6, <1>7, <4>1
    <3>. QED
      BY <3>2, <3>3
  <2>. QED
    BY <1>4, <1>10, <2>1, <2>2
<1>11. Tree(e)
  BY <1>3, <1>4, <1>10 DEF Tree
<1>12. ASSUME NEW q \in DOMAIN e, ~Within(l, q) PROVE q \in DOMAIN d /\ e[q] = d[q]
  <2>1. q \notin Put(L, x)
    BY <1>9, <1>12, Joined
  <2>. QED
    BY <1>2, <1>4, <1>6, <2>1 DEF Kept
<1>. QED
  BY <1>11, <1>12 DEF e, L

(* A path of names that are no indices finds the position of these names.  *)
Named(keys) == \A n \in 1..Len(keys) : keys[n] \notin {Star, "0", "00", "-0"}

LEMMA GetNamed ==
  ASSUME NEW d, Tree(d), NEW keys \in Position, Named(keys)
  PROVE  Get(d, MustCompile(keys)) = {keys} \cap DOMAIN d
<1>. DEFINE rules == MustCompile(keys)
            N == Len(rules)
<1>1. /\ N \in Nat /\ N = Len(keys)
      /\ \A n \in 1..N : /\ rules[n].rule # "filter" /\ keys[n] # Star /\ Atoi(keys[n]) = keys[n]
                         /\ rules[n] = Name(keys[n])
  BY CompiledIs DEF Named, Atoi
<1>2. ASSUME NEW p \in Get(d, rules) PROVE p = keys /\ p \in DOMAIN d
  <2>1. p \in DOMAIN d /\ Fits(p, keys, Len(keys))
    BY <1>2, GetFits
  <2>2. p \in Position /\ Len(p) = Len(keys)
    BY <2>1 DEF Fits
  <2>3. ASSUME NEW m \in 1..Len(p) PROVE p[m] = keys[m]
    <3>1. m \in 1..Len(keys)
      BY <2>2
    <3>2. Atoi(p[m]) = keys[m]
      BY <1>1, <2>1, <3>1 DEF Fits
    <3>3. keys[m] # "0"
      BY <3>1 DEF Named
    <3>. QED
      BY <3>2, <3>3 DEF Atoi
  <2>4. p = keys
    BY <2>2, <2>3, Equal
  <2>. QED
    BY <2>1, <2>4
<1>. HIDE DEF rules
<1>3. ASSUME keys \in DOMAIN d PROVE keys \in Get(d, rules)
  <2>1. PICK at : Executed(d, rules, at)
    BY <1>1, LocationsSteps
  <2>. DEFINE S == {n \in 0..N : SubSeq(keys, 1, n) \in at[n]}
  <2>2. 0 \in S
    <3>1. at[0] = {<<>>}
      BY <2>1 DEF Executed
    <3>2. SubSeq(keys, 1, 0) \in Position /\ Len(SubSeq(keys, 1, 0)) = 0
      BY <1>1, Prefix
    <3>3. SubSeq(keys, 1, 0) = <<>>
      BY <3>2, Root
    <3>4. SubSeq(keys, 1, 0) \in at[0] /\ 0 \in 0..N
      BY <1>1, <3>1, <3>3
    <3>. QED
      BY <3>4
  <2>3. ASSUME NEW n \in 1..N, n - 1 \in S PROVE n \in S
    <3>. DEFINE p == SubSeq(keys, 1, n - 1)
                q == SubSeq(keys, 1, n)
    <3>1. n \in 0..Len(keys) /\ n \in 1..Len(keys) /\ n \in 1..n
      BY <1>1
    <3>2. /\ q \in Position /\ q # <<>> /\ Parent(q) = p /\ Within(q, keys)
          /\ Len(q) = n /\ q[n] = keys[n]
      BY <3>1, Prefix, PrefixAbove, WithinPrefix
    <3>. HIDE DEF q
    <3>3. q \in DOMAIN d
      BY <1>3, <3>2, AboveIsThere
    <3>4. p \in DOMAIN d /\ d[p] \in Node
      BY <3>2, <3>3 DEF Tree
    <3>5. q = Append(p, keys[n])
      <4>1. PICK u \in Position, k \in Key : u = Parent(q) /\ k = Last(q) /\ q = Append(u, k)
        BY <3>2, Above
      <4>2. Last(q) = keys[n]
        BY <3>2 DEF Last
      <4>. QED
        BY <3>2, <4>1, <4>2
    <3>6. p \in at[n - 1]
      BY <2>3
    <3>. HIDE DEF p
    <3>7. rules[n].rule = "name" /\ rules[n].key = keys[n] /\ Atoi(keys[n]) = keys[n]
      <4>1. rules[n] = Name(keys[n]) /\ Atoi(keys[n]) = keys[n]
        BY <1>1
      <4>. QED
        BY <4>1 DEF Name
    <3>8. q \in Subscript(d, rules[n], p)
      BY <3>3, <3>4, <3>5, <3>7 DEF Subscript
    <3>9. at[n] = UNION {Subscript(d, rules[n], r) : r \in at[n - 1]}
      <4>1. at[n] = Execute(d, rules[n], at[n - 1])
        BY <2>1 DEF Executed
      <4>. QED
        BY <3>7, <4>1 DEF Execute
    <3>10. q \in at[n]
      BY <3>6, <3>8, <3>9
    <3>. QED
      BY <3>10 DEF q
  <2>4. N \in S
    <3>. HIDE DEF S
    <3>1. \A n \in 0..N : n \in S
      BY <1>1, <2>2, <2>3, UpTo
    <3>. QED
      BY <1>1, <3>1
  <2>5. SubSeq(keys, 1, N) = keys
    BY <1>1, SubSeqFull DEF Position
  <2>. QED
    BY <1>3, <2>1, <2>4, <2>5 DEF Executed, Get
<1>. QED
  BY <1>2, <1>3 DEF rules

Status == <<"status">>
DataKey == <<"data">>
TextKey == <<"stringData">>
TypeKey == <<"type">>
UidKey == Annotation("kubernetes.io/service-account.uid")

LEMMA SecretKeys ==
  /\ TextKey \in Position /\ TextKey # <<>> /\ Parent(TextKey) = <<>>
  /\ \A k \in {Status, DataKey, TypeKey, UidKey} :
       k \in Position /\ Named(k) /\ ~Within(TextKey, k)
  /\ DataKey # <<>> /\ Parent(DataKey) = <<>>
  /\ \A p \in Position : Below(DataKey, p) => ~Within(TextKey, p)
<1>1. TextKey \in Position /\ TypeKey \in Position
  BY LinesAssumption DEF Position, Key, TextKey, TypeKey
<1>2. Status \in Position
  <2>1. StatusLines \in Stages /\ Len(StatusLines) = 1 /\ StatusLines[1] = {Drop(Status)}
    BY LinesAssumption DEF Orderly, StatusLines, Status
  <2>2. Drop(Status) \in Line
    BY <2>1, StagesTyped
  <2>3. Drop(Status).path \in Position
    BY <2>2, LineIs
  <2>. QED
    BY <2>3 DEF Drop
<1>3. DataKey \in Position /\ UidKey \in Position
  <2>1. /\ TokenLines \in Stages /\ Len(TokenLines) = 1
        /\ TokenLines[1] = {Drop(DataKey), Drop(UidKey)}
    BY LinesAssumption DEF Orderly, TokenLines, DataKey, UidKey
  <2>2. Drop(DataKey) \in Line /\ Drop(UidKey) \in Line
    BY <2>1, StagesTyped
  <2>3. Drop(DataKey).path \in Position /\ Drop(UidKey).path \in Position
    BY <2>2, LineIs
  <2>. QED
    BY <2>3 DEF Drop
<1>4. /\ Len(Status) = 1 /\ Status[1] = "status"
      /\ Len(DataKey) = 1 /\ DataKey[1] = "data"
      /\ Len(TextKey) = 1 /\ TextKey[1] = "stringData"
      /\ Len(TypeKey) = 1 /\ TypeKey[1] = "type"
      /\ Len(UidKey) = 3 /\ UidKey[1] = "metadata" /\ UidKey[2] = "annotations"
      /\ UidKey[3] = "kubernetes.io/service-account.uid"
  BY DEF Status, DataKey, TextKey, TypeKey, UidKey, Annotation
<1>5. Named(Status) /\ Named(DataKey) /\ Named(TypeKey)
  BY <1>4 DEF Named, Star
<1>6. Named(UidKey)
  <2>1. \A n \in 1..3 : n = 1 \/ n = 2 \/ n = 3
    OBVIOUS
  <2>. QED
    BY <1>4, <2>1 DEF Named, Star
<1>7. ASSUME NEW k \in Position, k[1] # "stringData" PROVE ~Within(TextKey, k)
  BY <1>1, <1>4, <1>7, WithinMeans
<1>8. /\ TextKey # <<>> /\ Parent(TextKey) = <<>>
      /\ DataKey # <<>> /\ Parent(DataKey) = <<>>
  <2>1. ASSUME NEW k \in Position, Len(k) = 1 PROVE k # <<>> /\ Parent(k) = <<>>
    <3>1. k # <<>>
      BY <2>1, Root
    <3>2. Parent(k) \in Position /\ Len(Parent(k)) = 0
      BY <2>1, <3>1, Above
    <3>. QED
      BY <3>1, <3>2, Root
  <2>. QED
    BY <1>1, <1>3, <1>4, <2>1
<1>9. ASSUME NEW p \in Position, Below(DataKey, p) PROVE ~Within(TextKey, p)
  <2>1. Within(DataKey, p)
    BY <1>9 DEF Within
  <2>2. p[1] = "data"
    BY <1>3, <1>4, <2>1, WithinMeans
  <2>. QED
    BY <1>7, <2>2
<1>. QED
  BY <1>1, <1>2, <1>3, <1>4, <1>5, <1>6, <1>7, <1>8, <1>9

LEMMA DropSpent ==
  ASSUME NEW d, Tree(d), NEW k \in Position, Named(k)
  PROVE  Spent(d, Drop(k)) <=> k \notin DOMAIN d
<1>1. Matched(d, Drop(k)) = Get(d, MustCompile(k))
  BY DEF Matched, Drop
<1>. QED
  BY <1>1, GetNamed DEF Spent

LEMMA StatusSpent ==
  ASSUME NEW d, Tree(d)
  PROVE  AllSpent(d, StatusLines) <=> Status \notin DOMAIN d
<1>1. Len(StatusLines) = 1 /\ StatusLines[1] = {Drop(Status)}
  BY DEF StatusLines, Status
<1>2. AllSpent(d, StatusLines) <=> Spent(d, Drop(Status))
  BY <1>1 DEF AllSpent
<1>. QED
  BY <1>2, SecretKeys, DropSpent

LEMMA TokenSpent ==
  ASSUME NEW d, Tree(d)
  PROVE  AllSpent(d, TokenLines) <=> DataKey \notin DOMAIN d /\ UidKey \notin DOMAIN d
<1>1. Len(TokenLines) = 1 /\ TokenLines[1] = {Drop(DataKey), Drop(UidKey)}
  BY DEF TokenLines, DataKey, UidKey
<1>2. AllSpent(d, TokenLines) <=> Spent(d, Drop(DataKey)) /\ Spent(d, Drop(UidKey))
  BY <1>1 DEF AllSpent
<1>. QED
  BY <1>2, SecretKeys, DropSpent

(* What CleanSecret does before and after it has moved the texts.          *)
Token(d) ==
  Get(d, MustCompile(TypeKey)) # {} /\ d[TypeKey] = "kubernetes.io/service-account-token"
Tokenless(d) == IF Token(d) THEN Strip(d, TokenLines) ELSE d
Text(d) == [q \in {<<>>} \cup {<<Last(p)>> : p \in PlainTexts(d)} |->
              IF q = <<>> THEN "map" ELSE Decode(d[<<"data", q[1]>>])]
Moved(d) ==
  IF PlainTexts(d) = {} THEN CutAt(d, PlainTexts(d))
  ELSE PutAt(CutAt(d, PlainTexts(d)), {TextKey}, Text(d))

LEMMA SecretForm ==
  ASSUME NEW d
  PROVE  Existing("Secret", d) = Strip(Moved(Tokenless(Strip(d, StatusLines))), SecretLines)
<1>1. Strip(d, StatusLines \o CleanLines("Secret")) = Strip(d, StatusLines)
  <2>1. CleanLines("Secret") = <<>>
    BY DEF CleanLines
  <2>2. StatusLines \in Seq(SUBSET Line)
    BY LinesOfKinds DEF Stages
  <2>3. StatusLines \o <<>> = StatusLines
    BY <2>2, ConcatEmptySeq
  <2>. QED
    BY <2>1, <2>3
<1>2. \A e : CleanSecret(e) = Strip(Moved(Tokenless(e)), DataLines)
  BY DEF CleanSecret, ConvertSecretData, Moved, Tokenless, Token, Text, TextKey, TypeKey
<1>3. Existing("Secret", d) =
        Strip(Strip(CleanSecret(Strip(d, StatusLines)), CleanMetadata(<<>>)), DefaultLines("Secret"))
  BY <1>1 DEF Existing, Clean, Defaults
<1>4. DataLines \in Stages /\ CleanMetadata(<<>>) \in Stages /\ DefaultLines("Secret") \in Stages
  BY LinesAssumption, LinesOfKinds
<1>5. ASSUME NEW e
      PROVE  Strip(e, SecretLines) =
               Strip(Strip(Strip(e, DataLines), CleanMetadata(<<>>)), DefaultLines("Secret"))
  <2>1. /\ DataLines \o CleanMetadata(<<>>) \in Stages
        /\ Strip(e, DataLines \o CleanMetadata(<<>>)) = Strip(Strip(e, DataLines), CleanMetadata(<<>>))
    BY <1>4, StripJoined
  <2>. QED
    BY <1>4, <2>1, StripJoined DEF SecretLines
<1>. QED
  BY <1>2, <1>3, <1>5

LEMMA MovedIs ==
  ASSUME NEW d, Tree(d)
  PROVE  /\ Tree(Moved(d))
         /\ \A q \in DOMAIN Moved(d) : ~Within(TextKey, q) =>
              q \in DOMAIN d /\ Moved(d)[q] = d[q] /\ q \notin PlainTexts(d)
         /\ PlainTexts(d) = {} => Moved(d) = d
<1>. DEFINE T == PlainTexts(d)
            rest == CutAt(d, T)
<1>1. DOMAIN d \subseteq Position /\ DataKey \in Position
  BY SecretKeys DEF Tree
<1>2. \A p \in T : p \in DOMAIN d /\ p \in Children(d, DataKey)
  BY DEF PlainTexts, Children, DataKey
<1>3. ASSUME NEW p \in T
      PROVE  p \in Position /\ p # <<>> /\ Parent(p) = DataKey /\ Last(p) \in Key
  <2>1. p \in Position /\ p # <<>> /\ Parent(p) = DataKey
    BY <1>1, <1>2, ChildrenMeans
  <2>. QED
    BY <2>1, Above
<1>. HIDE DEF T
<1>4. /\ Tree(rest) /\ Less(rest, d) /\ (T = {} => rest = d)
      /\ DOMAIN rest = {<<>>} \cup Kept(d, T)
  <2>1. T \in SUBSET Position
    BY <1>3
  <2>2. DOMAIN rest = {<<>>} \cup Kept(d, T)
    BY CutFrame
  <2>. QED
    BY <2>1, <2>2, CutTree
<1>. HIDE DEF rest
<1>5. \A q \in DOMAIN rest : q \in DOMAIN d /\ rest[q] = d[q] /\ q \notin T
  <2>1. \A q \in Kept(d, T) : q \notin T
    BY <1>3, WithinSelf DEF Kept
  <2>2. <<>> \notin T
    BY <1>3
  <2>. QED
    BY <1>4, <2>1, <2>2 DEF Less
<1>6. CASE T = {}
  <2>1. Moved(d) = rest
    BY <1>6 DEF Moved, T, rest
  <2>. QED
    BY <1>4, <1>5, <1>6, <2>1 DEF T
<1>7. CASE T # {}
  <2>. DEFINE x == Text(d)
  <2>1. Moved(d) = PutAt(rest, {TextKey}, x)
    BY <1>7 DEF Moved, T, rest
  <2>2. x = [q \in {<<>>} \cup {<<Last(p)>> : p \in T} |->
               IF q = <<>> THEN "map" ELSE Decode(d[<<"data", q[1]>>])]
    BY DEF Text, T
  <2>. HIDE DEF x
  <2>3. DOMAIN x = {<<>>} \cup {<<Last(p)>> : p \in T} /\ x[<<>>] = "map"
    BY <2>2
  <2>4. ASSUME NEW q \in DOMAIN x, q # <<>>
        PROVE  q \in Position /\ Parent(q) = <<>>
    <3>1. PICK p \in T : q = <<Last(p)>>
      BY <2>3, <2>4
    <3>2. Last(p) \in Key
      BY <1>3
    <3>3. <<>> \in Position /\ q = Append(<<>>, Last(p))
      BY <3>1, EmptySeq DEF Position
    <3>. QED
      BY <3>2, <3>3, AppendAbove
  <2>5. Tree(x)
    <3>1. <<>> \in Position
      BY EmptySeq DEF Position
    <3>2. DOMAIN x \subseteq Position /\ <<>> \in DOMAIN x
      BY <2>3, <2>4, <3>1
    <3>3. x = [q \in DOMAIN x |-> x[q]]
      BY <2>2
    <3>4. "map" \in Node
      BY DEF Node
    <3>. QED
      BY <2>3, <2>4, <3>2, <3>3, <3>4 DEF Tree
  <2>6. <<>> \in DOMAIN rest /\ rest[<<>>] \in Node
    <3>1. PICK p \in T : TRUE
      BY <1>7
    <3>2. DataKey \in DOMAIN d
      BY <1>2, <1>3 DEF Tree
    <3>3. <<>> \in DOMAIN d /\ d[<<>>] \in Node
      BY <3>2, SecretKeys DEF Tree
    <3>. QED
      BY <1>4, <1>5, <3>3
  <2>7. /\ Tree(PutAt(rest, {TextKey}, x))
        /\ \A q \in DOMAIN PutAt(rest, {TextKey}, x) : ~Within(TextKey, q) =>
             q \in DOMAIN rest /\ PutAt(rest, {TextKey}, x)[q] = rest[q]
    BY <1>4, <2>5, <2>6, SecretKeys, PutTree
  <2>. QED
    BY <1>5, <1>7, <2>1, <2>7 DEF T
<1>. QED
  BY <1>6, <1>7

LEMMA SecretStable ==
  ASSUME NEW d, Tree(d)
  PROVE  Existing("Secret", Existing("Secret", d)) = Existing("Secret", d)
<1>. DEFINE x1 == Strip(d, StatusLines)
            x2 == Tokenless(x1)
            x3 == Moved(x2)
            y == Strip(x3, SecretLines)
<1>1. Orderly(StatusLines) /\ Orderly(TokenLines) /\ Orderly(SecretLines)
  BY LinesAssumption
<1>2. StatusLines \in Stages /\ TokenLines \in Stages /\ SecretLines \in Stages
  BY <1>1 DEF Orderly
<1>3. Existing("Secret", d) = y
  BY SecretForm
<1>4. Tree(x1) /\ AllSpent(x1, StatusLines)
  BY <1>1, StripSpends
<1>. HIDE DEF x1
<1>5. /\ Tree(x2) /\ Less(x2, x1)
      /\ Token(x1) => AllSpent(x2, TokenLines)
  <2>1. Less(x1, x1)
    BY DEF Less
  <2>2. Token(x1) => /\ x2 = Strip(x1, TokenLines)
    BY DEF Tokenless
  <2>3. ~Token(x1) => x2 = x1
    BY DEF Tokenless
  <2>4. Tree(Strip(x1, TokenLines)) /\ Less(Strip(x1, TokenLines), x1) /\ AllSpent(Strip(x1, TokenLines), TokenLines)
    BY <1>1, <1>4, StripSpends
  <2>. QED
    BY <1>4, <2>1, <2>2, <2>3, <2>4
<1>. HIDE DEF x2
<1>6. /\ Tree(x3)
      /\ \A q \in DOMAIN x3 : ~Within(TextKey, q) =>
           q \in DOMAIN x2 /\ x3[q] = x2[q] /\ q \notin PlainTexts(x2)
  BY <1>5, MovedIs
<1>. HIDE DEF x3
<1>7. Tree(y) /\ Less(y, x3) /\ AllSpent(y, SecretLines)
  BY <1>1, <1>6, StripSpends
<1>. HIDE DEF y
<1>8. ASSUME NEW q \in DOMAIN y, ~Within(TextKey, q)
      PROVE  /\ q \in DOMAIN x2 /\ q \in DOMAIN x1 /\ q \notin PlainTexts(x2)
             /\ y[q] = x2[q] /\ y[q] = x1[q]
  BY <1>5, <1>6, <1>7, <1>8 DEF Less
<1>9. Strip(y, StatusLines) = y
  <2>1. Status \notin DOMAIN y
    BY <1>4, <1>8, SecretKeys, StatusSpent
  <2>. QED
    BY <1>2, <1>7, <2>1, StatusSpent, StripNothing
<1>10. Tokenless(y) = y
  <2>1. CASE Token(y)
    <3>1. TypeKey \in DOMAIN y /\ y[TypeKey] = "kubernetes.io/service-account-token"
      BY <1>7, <2>1, SecretKeys, GetNamed DEF Token
    <3>2. TypeKey \in DOMAIN x1 /\ x1[TypeKey] = "kubernetes.io/service-account-token"
      BY <1>8, <3>1, SecretKeys
    <3>3. Token(x1)
      BY <1>4, <3>2, SecretKeys, GetNamed DEF Token
    <3>4. DataKey \notin DOMAIN x2 /\ UidKey \notin DOMAIN x2
      BY <1>5, <3>3, TokenSpent
    <3>5. AllSpent(y, TokenLines)
      BY <1>7, <1>8, <3>4, SecretKeys, TokenSpent
    <3>. QED
      BY <1>2, <1>7, <2>1, <3>5, StripNothing DEF Tokenless
  <2>2. CASE ~Token(y)
    BY <2>2 DEF Tokenless
  <2>. QED
    BY <2>1, <2>2
<1>11. PlainTexts(y) = {}
  <2>. SUFFICES ASSUME NEW p \in PlainTexts(y) PROVE FALSE
    OBVIOUS
  <2>1. /\ p \in DOMAIN y /\ Len(p) = Len(DataKey) + 1 /\ Below(DataKey, p)
        /\ \E t \in DOMAIN Encode : Encode[t] = y[p]
    BY DEF PlainTexts, Children, DataKey
  <2>2. p \in Position
    BY <1>7, <2>1 DEF Tree
  <2>3. p \in DOMAIN x2 /\ y[p] = x2[p] /\ p \notin PlainTexts(x2)
    BY <1>8, <2>1, <2>2, SecretKeys
  <2>. QED
    BY <2>1, <2>3 DEF PlainTexts, Children, DataKey
<1>12. Moved(y) = y
  BY <1>7, <1>11, MovedIs
<1>13. Strip(y, SecretLines) = y
  BY <1>2, <1>7, StripNothing
<1>14. Existing("Secret", y) = y
  BY <1>9, <1>10, <1>12, <1>13, SecretForm
<1>. QED
  BY <1>3, <1>14

------------------------------------------------------------------------------
(* Normalising is done once and for all, for every document and kind but a *)
(* ServiceAccount, whatever its fields: clean() and defaults() leave       *)
(* nothing that they would take away of the result (clean.go 15-161,       *)
(* default.go 9-120).  A Service without the number of a port is none      *)
(* that the API server accepts, and defaults() panics on it (default.go    *)
(* 93).  A reference of a ServiceAccount is at the text of a number, and   *)
(* that texts of different numbers differ is nothing a prover here knows.  *)
THEOREM NormalFormsAreFinal ==
  ASSUME NEW d, IsDocument(d), NEW k, k # "ServiceAccount", k = "Service" => Numbered(d)
  PROVE  Existing(k, Existing(k, d)) = Existing(k, d)
<1>1. Tree(d)
  BY DocumentIsTree
<1>2. CASE k = "Service"
  BY <1>1, <1>2, ServiceStable
<1>3. CASE k = "Secret"
  BY <1>1, <1>3, SecretStable
<1>4. CASE k \notin {"Secret", "Service", "ServiceAccount"}
  BY <1>1, <1>4, PlainStable
<1>. QED
  BY <1>2, <1>3, <1>4

(* NormalFormStable (lint_test.go 39-58) in every state whose live object  *)
(* is such a document, whoever wrote it and how often.                     *)
THEOREM LiveNormalForms ==
  ASSUME IsDocument(live), kind # "ServiceAccount", kind = "Service" => Numbered(live)
  PROVE  NormalFormStable
BY NormalFormsAreFinal DEF NormalFormStable
==============================================================================
