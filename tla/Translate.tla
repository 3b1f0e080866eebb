----------------------------- MODULE Translate -------------------------------
(***************************************************************************)
(* translateAsset() of pkg/sync/translate.go: the values of a Config put   *)
(* into the objects of the database, along the paths of a table.  What     *)
(* readDB does around it is ReadDB's subject.                              *)
(***************************************************************************)
EXTENDS JsonPath

CONSTANTS Assets,   \* a document for each key of the database that matters here
          Yaml,     \* the document each YAML text stands for
          Values,   \* the values a field of the Config may have, "" among them
          Configs   \* what a Config may say: a value for each field

Placeholder == "*** GENERATED ***"

VARIABLES config,   \* config.Spec.Config
          asset,    \* the key of the object
          o,        \* the object
          i         \* how many translations it has had

translateVars == <<config, asset, o, i>>

(* StaticConfig: a field a Config leaves out is the empty string. *)
IdentityFields ==
  {"IdentityAttrEmail", "IdentityAttrID", "IdentityAttrName", "IdentityAttrPreferredUsername",
   "IdentityBindName", "IdentityURL", "IdentityMappingMethod", "IdentityName"}
StaticConfig == IdentityFields \cup {"OSDLdapCA", "TelemeterServerURL", "ValeroOperatorImage"}

Path(ks) == [j \in DOMAIN ks |-> Name(ks[j])]
Plain(path, template) == [path |-> Path(path), nested |-> <<>>, template |-> template]

Provider(path, template) == Plain(<<"spec", "identityProviders", "0">> \o path, template)

TableKeys ==
  {"0", "attributes", "bindDN", "ca", "config.yaml", "containers", "crt", "data", "email",
   "errors.html", "id", "identityProviders", "image", "ldap", "login.html", "mappingMethod",
   "name", "preferredUsername", "providers.html", "spec", "stringData", "telemeterClient",
   "telemeterServerURL", "template", "url"}
ASSUME KeysAssumption == TableKeys \subseteq STRING

(* The table; a path without quotes has a key for every dot. *)
Translations(key) ==
  CASE key = "ConfigMap/openshift-config/osd-ldap-ca-configmap" ->
         << Plain(<<"stringData", "ca", "crt">>, "OSDLdapCA") >>
    [] key = "ConfigMap/openshift-monitoring/cluster-monitoring-config" ->
         << [path |-> Path(<<"data", "config.yaml">>),
             nested |-> Path(<<"telemeterClient", "telemeterServerURL">>),
             template |-> "TelemeterServerURL"] >>
    [] key = "Secret/openshift-config/osd-oauth-templates-errors" ->
         << Plain(<<"stringData", "errors.html">>, "OAuthTemplateErrors") >>
    [] key = "Deployment.apps/openshift-velero/managed-velero-operator" ->
         << Plain(<<"spec", "template", "spec", "containers", "0", "image">>, "ValeroOperatorImage") >>
    [] key = "Secret/openshift-config/osd-oauth-templates-login" ->
         << Plain(<<"stringData", "login.html">>, "OAuthTemplateLogin") >>
    [] key = "Secret/openshift-config/osd-oauth-templates-providers" ->
         << Plain(<<"stringData", "providers.html">>, "OAuthTemplateLogin") >>
    [] key = "SelectorSyncIdentityProvider.hive.openshift.io/osd-sre-identityprovider" ->
         << Provider(<<"ldap", "attributes", "email", "0">>, "IdentityAttrEmail"),
            Provider(<<"ldap", "attributes", "id", "0">>, "IdentityAttrID"),
            Provider(<<"ldap", "attributes", "name", "0">>, "IdentityAttrName"),
            Provider(<<"ldap", "attributes", "preferredUsername", "0">>, "IdentityAttrPreferredUsername"),
            Provider(<<"ldap", "bindDN">>, "IdentityBindName"),
            Provider(<<"ldap", "url">>, "IdentityURL"),
            Provider(<<"mappingMethod">>, "IdentityMappingMethod"),
            Provider(<<"name">>, "IdentityName") >>
    [] OTHER -> <<>>

(* The pages embedded in the binary, and Base64Encode of each. *)
Derived == [OAuthTemplateErrors    |-> "base64 of errors.html",
            OAuthTemplateLogin     |-> "base64 of login.html",
            OAuthTemplateProviders |-> "base64 of providers.html"]

Template(t) == IF t \in StaticConfig THEN config[t] ELSE Derived[t]

Marshal(d) == CHOOSE t \in DOMAIN Yaml : Yaml[t] = d

(* Mutant: a value the Config leaves out is not written. *)
MutWritten(d, tr, v) ==
  IF v = "" THEN d
  ELSE IF tr.nested = <<>> THEN Set(d, tr.path, Leaf(v))
  ELSE Set(d, tr.path, Leaf(Marshal(Set(Yaml[MustGetString(d, tr.path)], tr.nested, Leaf(v)))))

(* Mutant: the nested document is replaced by the value. *)
MutTranslated(d, tr, v) == Set(d, tr.path, Leaf(v))

(* translate().  It panics if there is no YAML text at the path. *)
Translated(d, tr, v) ==
  IF tr.nested = <<>> THEN Set(d, tr.path, Leaf(v))
  ELSE Set(d, tr.path, Leaf(Marshal(Set(Yaml[MustGetString(d, tr.path)], tr.nested, Leaf(v)))))

------------------------------------------------------------------------------
(* What is assumed of a Config, the YAML library and the files. *)

(* No value is the placeholder, one of the YAML texts, or structure.       *)
Given == Values \cup {Derived[t] : t \in DOMAIN Derived}
ASSUME ValuesAssumption ==
  /\ "" \in Values /\ Configs \subseteq [StaticConfig -> Values]
  /\ Given \cap (DOMAIN Yaml \cup Node \cup {Placeholder}) = {}
  /\ DOMAIN Yaml \cap (Node \cup {Placeholder}) = {}

Rows == UNION {{Translations(a)[j] : j \in DOMAIN Translations(a)} : a \in DOMAIN Assets}
ASSUME YamlAssumption ==
  /\ \A s \in DOMAIN Yaml : IsDocument(Yaml[s])
  /\ \A s, t \in DOMAIN Yaml : Yaml[s] = Yaml[t] => s = t
  /\ \A s \in DOMAIN Yaml, tr \in Rows, v \in Values : tr.nested # <<>> =>
       \E t \in DOMAIN Yaml : Yaml[t] = Set(Yaml[s], tr.nested, Leaf(v))

(* The places of d that are left open, and those that rows may fill: a     *)
(* position of d, or one of d and one in the text there.                   *)
Open(d) ==
  {<<p>> : p \in {p \in DOMAIN d : d[p] = Placeholder}}
    \cup UNION {{<<p, q>> : q \in {q \in DOMAIN Yaml[d[p]] : Yaml[d[p]][q] = Placeholder}} :
                  p \in {p \in DOMAIN d : d[p] \in DOMAIN Yaml}}
Filled(d, tr) ==
  IF tr.nested = <<>> THEN {<<p>> : p \in Locations(d, tr.path)}
  ELSE UNION {{<<p, q>> : q \in Locations(Yaml[d[p]], tr.nested)} : p \in Get(d, tr.path)}

(* pkg/sync/data agrees with the table: its rows fill what is left open,   *)
(* and nothing else; a row with a nested path finds a text.                *)
ASSUME FilesAssumption ==
  \A a \in DOMAIN Assets :
    LET rows == {Translations(a)[j] : j \in DOMAIN Translations(a)}
    IN  /\ IsDocument(Assets[a])
        /\ Open(Assets[a]) = UNION {Filled(Assets[a], tr) : tr \in rows}
        /\ \A tr \in rows : tr.nested # <<>> =>
             /\ Get(Assets[a], tr.path) # {}
             /\ \A p \in Get(Assets[a], tr.path) : Assets[a][p] \in DOMAIN Yaml

------------------------------------------------------------------------------
TranslateInit ==
  /\ config \in Configs
  /\ asset \in DOMAIN Assets
  /\ o = Assets[asset]
  /\ i = 0

(* One round of translateAsset's loop. *)
TranslateNext ==
  /\ i < Len(Translations(asset))
  /\ LET tr == Translations(asset)[i + 1]
     IN  o' = Translated(o, tr, Template(tr.template))
  /\ i' = i + 1
  /\ UNCHANGED <<config, asset>>

TranslateSpec == TranslateInit /\ [][TranslateNext]_translateVars

------------------------------------------------------------------------------
Done == i = Len(Translations(asset))

(* A document with its YAML texts opened up. *)
YamlTexts(d) == {p \in DOMAIN d : d[p] \in DOMAIN Yaml}
Opened(d) ==
  LET inside == UNION {{t \o q : q \in DOMAIN Yaml[d[t]]} : t \in YamlTexts(d)}
      Of(p)  == CHOOSE t \in YamlTexts(d) : Within(t, p)
  IN  [p \in ((DOMAIN d) \ YamlTexts(d)) \cup inside |->
         IF p \notin inside THEN d[p] ELSE Yaml[d[Of(p)]][SubSeq(p, Len(Of(p)) + 1, Len(p))]]

(* Every place the files leave to the configuration is in the table: when  *)
(* translateAsset is done no "*** GENERATED ***" is applied to a cluster,  *)
(* not in a text inside the object either (translate.go 104-186).          *)
NoPlaceholderLeft ==
  Done => \A p \in DOMAIN Opened(o) : Opened(o)[p] # Placeholder

(* Nothing else is touched: the object has its positions as before, and    *)
(* what was no placeholder is as it was, in the nested text too (translate *)
(* rewrites the whole of it, translate.go 79-99).                          *)
OnlyPlaceholdersChange ==
  LET before == Opened(Assets[asset]) after == Opened(o)
  IN  /\ DOMAIN before = DOMAIN after
      /\ \A p \in DOMAIN before : before[p] # after[p] => before[p] = Placeholder

(* "populating configuration items via translate()" (client.go 105-106): a *)
(* value the Config gives for an object arrives in it.                     *)
EveryValueArrives ==
  Done => \A j \in 1..Len(Translations(asset)) :
    LET v == Template(Translations(asset)[j].template)
    IN  \E p \in DOMAIN Opened(o) : Opened(o)[p] = v
==============================================================================
