---------------------------- MODULE MCTranslate ------------------------------
(* The files of pkg/sync/data that have a translation, cut to what is near  *)
(* the place of the value, and one that has none.                           *)
EXTENDS Translate

Maps(ks) == [q \in {SubSeq(ks, 1, n) : n \in 0..Len(ks) - 1} |->
               IF q # <<>> /\ q[Len(q)] = "containers" THEN "list" ELSE "map"]
File(path, a) == Maps(path) @@ (path :> a)

SomeSettings == {"", "x", "y"}
SomeConfigs ==
  {[f \in StaticConfig |-> IF f \in IdentityFields THEN v ELSE c[f]] :
     v \in SomeSettings, c \in [StaticConfig \ IdentityFields -> SomeSettings]}
Settings(v) == File(<<"telemeterClient", "telemeterServerURL">>, v)
                 @@ File(<<"prometheusK8s", "retention">>, "15d")
TextFor == ("" :> "config-") @@ ("x" :> "config-x") @@ ("y" :> "config-y")
             @@ (Placeholder :> "config-generated")
SomeYaml == [t \in {TextFor[v] : v \in DOMAIN TextFor} |->
               Settings(CHOOSE v \in DOMAIN TextFor : TextFor[v] = t)]

SomeAssets ==
  ("ConfigMap/openshift-config/osd-ldap-ca-configmap" :> File(<<"data", "ca.crt">>, "test"))
    @@ ("ConfigMap/openshift-monitoring/cluster-monitoring-config" :>
          File(<<"data", "config.yaml">>, TextFor[Placeholder]))
    @@ ("Secret/openshift-config/osd-oauth-templates-errors" :>
          File(<<"stringData", "errors.html">>, Placeholder))
    @@ ("Secret/openshift-config/osd-oauth-templates-login" :>
          File(<<"stringData", "login.html">>, Placeholder))
    @@ ("Secret/openshift-config/osd-oauth-templates-providers" :>
          File(<<"stringData", "providers.html">>, Placeholder))
    @@ ("Deployment.apps/openshift-velero/managed-velero-operator" :>
          (File(<<"spec", "template", "spec", "containers", "0", "image">>, Placeholder)
             @@ File(<<"spec", "template", "spec", "containers", "0", "name">>, "managed-velero-operator")))
    @@ ("Namespace/openshift-velero" :> File(<<"metadata", "name">>, "openshift-velero"))
==============================================================================
