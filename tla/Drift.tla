-------------------------------- MODULE Drift --------------------------------
(***************************************************************************)
(* One object of the database and its live copy, field by field.  The API  *)
(* server completes what it is sent and the controllers of the cluster     *)
(* annotate it; other clients change it; passes of the operator compare    *)
(* and repair it.                                                          *)
(***************************************************************************)
EXTENDS Normalize

CONSTANTS
  Cases,     \* objects of the database: their kinds and files
  Other,     \* the value other clients write
  MaxEdits,  \* bound on the writes of other clients
  NoObject

VARIABLES
  case,   \* the object of this behaviour
  live,   \* the live object, or NoObject
  edits   \* writes by other clients so far

driftVars == <<case, live, edits>>

kind == case.kind

------------------------------------------------------------------------------
(* The API server: external.  The defaults are those the comments of the   *)
(* vendored API types give (src/vendor/k8s.io/api).                        *)

Field(at, key, value) == [at |-> at, key |-> key, value |-> value]
Atom(at, key, a) == Field(at, key, Leaf(a))

(* Each field of a stage is filled wherever the map it belongs to is there *)
(* without it.                                                             *)
FillStage(d, fields) ==
  LET free == UNION {{<<Append(p, f.key), f.value>> :
                        p \in {p \in Get(d, MustCompile(f.at)) : d[p] = "map" /\ Append(p, f.key) \notin DOMAIN d}}
                     : f \in fields}
      Of(q) == CHOOSE e \in free : Within(e[1], q)
  IN  d @@ [q \in UNION {{e[1] \o r : r \in DOMAIN e[2]} : e \in free} |->
              Of(q)[2][SubSeq(q, Len(Of(q)[1]) + 1, Len(q))]]
Fill(d, stages) == FoldLeft(FillStage, d, stages)

Created(at) == << {Field(at, "metadata", EmptyMap)},
                  {Atom(at \o <<"metadata">>, "creationTimestamp", "null")} >>
ServedProbe(at) ==
  { Atom(at, "failureThreshold", "3"), Atom(at, "periodSeconds", "10"),
    Atom(at, "successThreshold", "1"), Atom(at, "timeoutSeconds", "1"),
    Atom(at \o <<"httpGet">>, "scheme", "HTTP") }
ServedContainer(at) ==
  ServedProbe(at \o <<"livenessProbe">>) \cup ServedProbe(at \o <<"readinessProbe">>)
    \cup { Atom(at \o <<"ports", Star>>, "protocol", "TCP"),
           Atom(at \o <<"env", Star, "valueFrom", "fieldRef">>, "apiVersion", "v1"),
           Field(at, "resources", EmptyMap), Atom(at, "imagePullPolicy", "IfNotPresent"),
           Atom(at, "terminationMessagePath", "/dev/termination-log"),
           Atom(at, "terminationMessagePolicy", "File") }
ServedPodSpec(spec) ==
  ServedContainer(spec \o <<"containers", Star>>) \cup ServedContainer(spec \o <<"initContainers", Star>>)
    \cup { Atom(spec, "dnsPolicy", "ClusterFirst"), Atom(spec, "restartPolicy", "Always"),
           Atom(spec, "schedulerName", "default-scheduler"), Field(spec, "securityContext", EmptyMap),
           Atom(spec, "terminationGracePeriodSeconds", "30"),
           Atom(spec \o <<"volumes", Star, "configMap">>, "defaultMode", "420"),
           Atom(spec \o <<"volumes", Star, "secret">>, "defaultMode", "420"),
           Atom(spec \o <<"volumes", Star, "hostPath">>, "type", "") }
ServedTemplate(at) == Created(at) \o << ServedPodSpec(at \o <<"spec">>) >>

(* The strategy of a workload: what a rolling update needs is filled only  *)
(* into one.                                                               *)
ServedStrategy(d, strategy, values) ==
  LET at == <<"spec", strategy>>
      e  == Fill(d, << {Field(<<"spec">>, strategy, EmptyMap)}, {Atom(at, "type", "RollingUpdate")} >>)
  IN  IF e[at \o <<"type">>] # "RollingUpdate" THEN e
      ELSE Fill(e, << {Field(at, "rollingUpdate", EmptyMap)},
                      {Atom(at \o <<"rollingUpdate">>, v[1], v[2]) : v \in values} >>)

ServedFields ==
  CASE kind = "CronJob.batch" ->
         Created(JobTemplate) \o ServedTemplate(JobTemplate \o PodTemplate)
           \o << {Atom(<<"spec">>, "concurrencyPolicy", "Allow"), Atom(<<"spec">>, "suspend", "false"),
                  Atom(<<"spec">>, "failedJobsHistoryLimit", "1"),
                  Atom(<<"spec">>, "successfulJobsHistoryLimit", "3")} >>
    [] kind = "DaemonSet.apps" ->
         ServedTemplate(PodTemplate) \o << {Atom(<<"spec">>, "revisionHistoryLimit", "10")} >>
    [] kind = "Deployment.apps" ->
         ServedTemplate(PodTemplate)
           \o << {Atom(<<"spec">>, "revisionHistoryLimit", "10"), Atom(<<"spec">>, "replicas", "1"),
                  Atom(<<"spec">>, "progressDeadlineSeconds", "600")} >>
    [] kind = "StatefulSet.apps" ->
         ServedTemplate(PodTemplate) \o Created(<<"spec", "volumeClaimTemplates", Star>>)
           \o << {Atom(<<"spec">>, "revisionHistoryLimit", "10"), Atom(<<"spec">>, "replicas", "1"),
                  Atom(<<"spec">>, "podManagementPolicy", "OrderedReady"),
                  Atom(<<"spec">>, "serviceName", ""),
                  Field(<<"spec", "volumeClaimTemplates", Star>>, "status", EmptyMap)} >>
    [] kind = "Secret" -> << {Atom(<<>>, "type", "Opaque")} >>
    [] kind = "Service" ->
         << {Atom(<<"spec", "ports", Star>>, "protocol", "TCP"), Atom(<<"spec">>, "clusterIP", "ip"),
             Atom(<<"spec">>, "sessionAffinity", "None"), Atom(<<"spec">>, "type", "ClusterIP")} >>
    [] kind = "StorageClass.storage.k8s.io" ->
         << {Atom(<<>>, "reclaimPolicy", "Delete"), Atom(<<>>, "volumeBindingMode", "Immediate")} >>
    [] kind = "Namespace" ->
         << {Field(<<>>, "spec", EmptyMap)}, {Atom(<<"spec">>, "finalizers", "kubernetes")} >>
    [] OTHER -> <<>>

(* Defaults that depend on another field. *)
ServedAfter(d) ==
  CASE kind = "Deployment.apps" ->
         ServedStrategy(d, "strategy", {<<"maxSurge", "25%">>, <<"maxUnavailable", "25%">>})
    [] kind = "DaemonSet.apps" -> ServedStrategy(d, "updateStrategy", {<<"maxUnavailable", "1">>})
    [] kind = "StatefulSet.apps" -> ServedStrategy(d, "updateStrategy", {<<"partition", "0">>})
    [] kind = "Service" ->
         Fill(d, << {Atom(p, "targetPort", d[Append(p, "port")]) :
                       p \in Get(d, MustCompile(<<"spec", "ports", Star>>))}
                    \cup (IF d[<<"spec", "type">>] # "LoadBalancer" THEN {}
                          ELSE {Atom(<<"spec", "ports", Star>>, "nodePort", "30000"),
                                Atom(<<"spec">>, "externalTrafficPolicy", "Cluster")}) >>)
    [] OTHER -> d
ServedAlias(d) ==
  Fill(d, << {Atom(PodSpec, "serviceAccount", d[p]) :
                p \in Get(d, MustCompile(PodSpec \o <<"serviceAccountName">>))} >>)

(* A Secret's stringData is write-only: it ends up, encoded, in data. *)
StoreText(d) ==
  LET text == Children(d, <<"stringData">>)
      data == [q \in {<<>>} \cup {<<Last(p)>> : p \in text} |->
                 IF q = <<>> THEN "map" ELSE Encode[d[<<"stringData", q[1]>>]]]
      old  == IF <<"data">> \in DOMAIN d THEN SubDocument(d, <<"data">>) ELSE EmptyMap
  IN  IF text = {} THEN d
      ELSE PutAt(CutAt(d, {<<"stringData">>}), {<<"data">>}, data @@ old)

(* What the code says of an OperatorGroup's annotation: it does not stay. *)
ResetProvidedAPIs(d) ==
  IF Annotation("olm.providedAPIs") \notin DOMAIN d THEN d
  ELSE PutAt(d, {Annotation("olm.providedAPIs")}, Leaf(""))

ServedMetadata ==
  << {Field(<<>>, "metadata", EmptyMap), Field(<<>>, "status", EmptyMap)},
     {Atom(<<"metadata">>, "uid", "u"), Atom(<<"metadata">>, "resourceVersion", "v"),
      Atom(<<"metadata">>, "generation", "1"), Atom(<<"metadata">>, "creationTimestamp", "t"),
      Atom(<<"metadata">>, "selfLink", "l")} >>

Serve(d) ==
  LET e == CASE kind = "Secret" -> StoreText(d)
             [] kind = "OperatorGroup.operators.coreos.com" -> ResetProvidedAPIs(d)
             [] OTHER -> d
  IN  ServedAfter(Fill(ServedAlias(e), ServedMetadata \o ServedFields))

(* What controllers add some time later. *)
Annotated(d, as) ==
  Fill(d, << {Field(<<"metadata">>, "annotations", EmptyMap)},
             {Atom(<<"metadata", "annotations">>, a, "c") : a \in as} >>)
ControllersAdd(d) ==
  CASE kind = "Deployment.apps" -> Annotated(d, {"deployment.kubernetes.io/revision"})
    [] kind = "DaemonSet.apps" -> Annotated(d, {"deprecated.daemonset.template.generation"})
    [] kind = "Namespace" ->
         Annotated(d, {"openshift.io/sa.scc.mcs", "openshift.io/sa.scc.supplemental-groups",
                       "openshift.io/sa.scc.uid-range"})
    [] kind = "ImageStream.image.openshift.io" ->
         Fill(Annotated(d, {"openshift.io/image.dockerRepositoryCheck"}),
              << {Atom(<<"spec", "tags", Star>>, "generation", "2")} >>)
    [] kind = "Service" -> Annotated(d, {"service.alpha.openshift.io/serving-cert-signed-by"})
    [] kind = "Secret" /\ d[<<"type">>] = "kubernetes.io/service-account-token" ->
         Fill(Annotated(d, {"kubernetes.io/service-account.uid"}),
              << {Field(<<>>, "data", EmptyMap)}, {Atom(<<"data">>, "token", "binary")} >>)
    [] kind = "ServiceAccount" ->
         Fill(d, << {Field(<<>>, "secrets", ListOf(<< EmptyMap @@ (<<"name">> :> "sa-token-x2b4z") >>))} >>)
    [] OTHER -> d

------------------------------------------------------------------------------
(* The operator. *)

stored == Defaults(kind, case.file)   \* readDB

(* One write() of a pass: clean, defaults, label, special objects, compare. *)
Draft(d) == HandleSpecialObjects(kind, Existing(kind, d), MarkSyncPodOwned(stored))
WantsUpdate(d) == NeedsUpdate(Existing(kind, d), Draft(d))

Create ==
  /\ live = NoObject
  /\ live' = Serve(MarkSyncPodOwned(stored))
  /\ UNCHANGED <<case, edits>>

Update ==
  /\ live # NoObject
  /\ WantsUpdate(live)
  /\ live' = Serve(Draft(live))
  /\ UNCHANGED <<case, edits>>

------------------------------------------------------------------------------
(* Everybody else. *)

Controllers ==
  /\ live # NoObject
  /\ live' = ControllersAdd(live)
  /\ live' # live
  /\ UNCHANGED <<case, edits>>

Outsider ==
  /\ edits < MaxEdits /\ edits' = edits + 1
  /\ live # NoObject
  /\ \/ \E p \in DOMAIN MarkSyncPodOwned(case.file) :
          /\ MarkSyncPodOwned(case.file)[p] \notin Node
          /\ \/ live' = Serve(PutAt(live, {p}, Leaf(Other)))
             \/ /\ InMap(MarkSyncPodOwned(case.file), p)
                /\ Last(p) # "port"  \* a port without its number is refused
                /\ live' = Serve(CutAt(live, {p}))
     \/ live' = Annotated(live, {Other})
     \/ live' = NoObject
  /\ UNCHANGED case

DriftInit == case \in Cases /\ live = NoObject /\ edits = 0
DriftNext == Create \/ Update \/ Controllers \/ Outsider
DriftSpec == DriftInit /\ [][DriftNext]_driftVars

------------------------------------------------------------------------------
(* Properties. *)

(* What an object looks like is settled by its file, except for what       *)
(* belongs to the cluster: patterns of positions, and references to        *)
(* generated secrets.                                                      *)
ClusterOwned ==
  { <<"metadata", "uid">>, <<"metadata", "resourceVersion">>, <<"metadata", "generation">>,
    <<"metadata", "creationTimestamp">>, <<"metadata", "selfLink">>, <<"status">> }
  \cup CASE kind \in {"Deployment.apps", "DaemonSet.apps", "StatefulSet.apps"} ->
              { Annotation("deployment.kubernetes.io/revision"),
                Annotation("deprecated.daemonset.template.generation"),
                PodSpec \o <<"containers", Star, "imagePullPolicy">>,
                PodSpec \o <<"initContainers", Star, "imagePullPolicy">>,
                PodSpec \o <<"serviceAccount">> }
         [] kind = "Namespace" ->
              { <<"spec">>, Annotation("openshift.io/sa.scc.mcs"),
                Annotation("openshift.io/sa.scc.supplemental-groups"),
                Annotation("openshift.io/sa.scc.uid-range") }
         [] kind = "ImageStream.image.openshift.io" ->
              { Annotation("openshift.io/image.dockerRepositoryCheck"), <<"spec", "tags", Star, "generation">> }
         [] kind = "Service" ->
              { Annotation("service.alpha.openshift.io/serving-cert-signed-by"), <<"spec", "clusterIP">> }
         [] kind = "Secret" /\ <<"type">> \in DOMAIN case.file
              /\ case.file[<<"type">>] = "kubernetes.io/service-account-token" ->
              { Annotation("kubernetes.io/service-account.uid"), <<"data">> }
         [] OTHER -> {}
(* The ports and the policy of a LoadBalancer are left to whoever set them. *)
LeftAlone(d) ==
  IF kind = "Service" /\ d[<<"spec", "type">>] = "LoadBalancer"
    THEN { <<"spec", "ports">>, <<"spec", "externalTrafficPolicy">> } ELSE {}
GeneratedRefs(d) ==
  IF kind # "ServiceAccount" THEN {}
  ELSE LET refs == Children(d, <<"secrets">>)
           gen  == {r \in refs : d[Append(r, "name")] \in Generated}
       IN  gen \cup (IF gen = refs THEN {<<"secrets">>} ELSE {})
Settled(d) ==
  LET hidden == UNION {Get(d, MustCompile(x)) : x \in ClusterOwned \cup LeftAlone(d)} \cup GeneratedRefs(d)
      seen   == {p \in DOMAIN d : p # <<"metadata", "annotations">> /\ \A h \in hidden : ~Within(h, p)}
  IN  [p \in seen |-> d[p]]
Drifted(d) == Settled(d) # Settled(Serve(MarkSyncPodOwned(stored)))

(* A pass writes an object exactly when it differs from its file in        *)
(* something the cluster does not own: clean() and defaults() strip        *)
(* neither too little, which would "cause us to update objects when we     *)
(* don't actually need to" (client.go 170-173), nor so much that a change  *)
(* goes unseen.                                                            *)
UpdatesExactlyDrift == live # NoObject => (WantsUpdate(live) <=> Drifted(live))

(* Normalising is done once and for all: the file TestLint regenerates     *)
(* from an exported object passes TestLint (lint_test.go 39-58).           *)
NormalFormStable ==
  live # NoObject => Existing(kind, Existing(kind, live)) = Existing(kind, live)

(* One write is enough: what a pass sends comes back from the server as    *)
(* the next pass wants it, so no object is written twice for one change    *)
(* (client.go 276-291, clean.go 164-190).                                  *)
OneWriteRepairs ==
  [][live' # live /\ (Create \/ Update) => ~Drifted(live') /\ ~WantsUpdate(live')]_driftVars
==============================================================================
