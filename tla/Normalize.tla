------------------------------ MODULE Normalize ------------------------------
(***************************************************************************)
(* The normal forms write() compares: clean() and defaults() strip from    *)
(* the live object what the cluster added to it (pkg/sync/clean.go,        *)
(* default.go), handleSpecialObjects() copies into the stored one what it  *)
(* cannot know.  One object at a time, field by field.                     *)
(***************************************************************************)
EXTENDS JsonPath

CONSTANTS
  Encode,     \* base64 of the texts; what decodes to no text is not in its range
  Generated   \* the names that end like those of generated secrets

Null == Leaf("null")

(* jsonpath.MustCompile of the paths that clean.go and default.go spell. *)
Star == "*"
MustCompile(keys) == [i \in DOMAIN keys |-> IF keys[i] = Star THEN All ELSE Name(keys[i])]

(* A function of the two files is a sequence of deletions, each with a     *)
(* value to match or, Whatever, without.  Deletions that are not nested in *)
(* each other commute (DeletionsCommute of Document): they form one stage. *)
(* The order of the stages is the order of the code.                       *)
Whatever == <<>>
Drop(path) == [path |-> path, is |-> Whatever]
DropIf(path, x) == [path |-> path, is |-> x]
DropAll(at, paths) == {Drop(at \o p) : p \in paths}
DropDefaults(at, atoms) == {DropIf(at \o a[1], Leaf(a[2])) : a \in atoms}
Matched(d, l) ==
  LET path == MustCompile(l.path)
  IN  IF l.is = Whatever THEN Get(d, path) ELSE Matching(d, path, l.is)
StripStage(d, lines) == CutAt(d, UNION {Matched(d, l) : l \in lines})
Strip(d, stages) ==
  LET at[n \in 0..Len(stages)] == IF n = 0 THEN d ELSE StripStage(at[n - 1], stages[n])
  IN  at[Len(stages)]

------------------------------------------------------------------------------
(* clean.go *)

Annotation(a) == <<"metadata", "annotations", a>>

CleanMetadata(at) ==
  << DropAll(at, { Annotation("kubectl.kubernetes.io/last-applied-configuration"),
                   Annotation("openshift.io/generated-by"),
                   <<"metadata", "creationTimestamp">>, <<"metadata", "generation">>,
                   <<"metadata", "resourceVersion">>, <<"metadata", "selfLink">>,
                   <<"metadata", "uid">> }),
     {DropIf(at \o <<"metadata", "annotations">>, EmptyMap)} >>

CleanPodTemplate(at) ==
  << DropAll(at, { <<"spec", "initContainers", Star, "imagePullPolicy">>,
                   <<"spec", "containers", Star, "imagePullPolicy">> }) >> \o CleanMetadata(at)

JobTemplate == <<"spec", "jobTemplate">>
PodTemplate == <<"spec", "template">>

(* The lines of clean() that only delete, by kind. *)
CleanLines(kind) ==
  CASE kind = "CronJob.batch" ->
         CleanMetadata(JobTemplate) \o << {DropIf(JobTemplate \o <<"metadata">>, EmptyMap)} >>
           \o CleanMetadata(JobTemplate \o PodTemplate)
           \o << {DropIf(JobTemplate \o PodTemplate \o <<"metadata">>, EmptyMap)} >>
    [] kind = "DaemonSet.apps" ->
         << {Drop(Annotation("deprecated.daemonset.template.generation"))} >>
           \o CleanPodTemplate(PodTemplate)
    [] kind = "Deployment.apps" ->
         << {Drop(Annotation("deployment.kubernetes.io/revision"))} >> \o CleanPodTemplate(PodTemplate)
    [] kind = "DeploymentConfig.apps.openshift.io" -> CleanPodTemplate(PodTemplate)
    [] kind = "ImageStream.image.openshift.io" ->
         << DropAll(<<>>, { Annotation("openshift.io/image.dockerRepositoryCheck"),
                            <<"spec", "tags", Star, "generation">> }) >>
    [] kind = "Namespace" ->
         << DropAll(<<>>, { Annotation("openshift.io/sa.scc.mcs"),
                            Annotation("openshift.io/sa.scc.supplemental-groups"),
                            Annotation("openshift.io/sa.scc.uid-range") }) >>
    [] kind = "Service" ->
         << {Drop(Annotation("service.alpha.openshift.io/serving-cert-signed-by"))} >>
    [] kind = "StatefulSet.apps" ->
         CleanPodTemplate(PodTemplate) \o CleanMetadata(<<"spec", "volumeClaimTemplates", Star>>)
           \o << {Drop(<<"spec", "volumeClaimTemplates", Star, "status">>)} >>
    [] OTHER -> <<>>

(* convertSecretData: what decodes to text moves from data to stringData. *)
PlainTexts(d) ==
  {p \in Children(d, <<"data">>) : \E t \in DOMAIN Encode : Encode[t] = d[p]}
Decode(a) == CHOOSE t \in DOMAIN Encode : Encode[t] = a
DataLines == << {DropIf(<<"data">>, EmptyMap)} >>
(* Mutant: looks whether data is empty before it empties it. *)
MutConvertSecretData(d) ==
  LET e    == Strip(d, DataLines)
      text == [q \in {<<>>} \cup {<<Last(p)>> : p \in PlainTexts(d)} |->
                 IF q = <<>> THEN "map" ELSE Decode(d[<<"data", q[1]>>])]
  IN  IF PlainTexts(d) = {} THEN e
      ELSE PutAt(CutAt(e, PlainTexts(d)), {<<"stringData">>}, text)

ConvertSecretData(d) ==
  LET rest == CutAt(d, PlainTexts(d))
      text == [q \in {<<>>} \cup {<<Last(p)>> : p \in PlainTexts(d)} |->
                 IF q = <<>> THEN "map" ELSE Decode(d[<<"data", q[1]>>])]
      both == IF PlainTexts(d) = {} THEN rest ELSE PutAt(rest, {<<"stringData">>}, text)
  IN  Strip(both, DataLines)

TokenLines == << {Drop(<<"data">>), Drop(Annotation("kubernetes.io/service-account.uid"))} >>
CleanSecret(d) ==
  ConvertSecretData(
    IF Get(d, MustCompile(<<"type">>)) # {} /\ d[<<"type">>] = "kubernetes.io/service-account-token"
      THEN Strip(d, TokenLines) ELSE d)

(* The references of a ServiceAccount whose names are not generated. *)
ListOf(docs) ==
  [p \in {<<>>} \cup UNION {{<<ToString(i - 1)>> \o q : q \in DOMAIN docs[i]} : i \in DOMAIN docs} |->
     IF p = <<>> THEN "list"
     ELSE docs[CHOOSE i \in DOMAIN docs : ToString(i - 1) = p[1]][Tail(p)]]
KeepRefs(d, field) ==
  LET n    == Cardinality(Children(d, <<field>>))
      refs == [i \in 1..n |-> SubDocument(d, <<field, ToString(i - 1)>>)]
      kept == SelectSeq(refs, LAMBDA r : r[<<"name">>] \notin Generated)
  IN  IF kept = <<>> THEN Delete(d, MustCompile(<<field>>))
                     ELSE Set(d, MustCompile(<<field>>), ListOf(kept))
CleanServiceAccount(d) == KeepRefs(KeepRefs(d, "imagePullSecrets"), "secrets")

StatusLines == << {Drop(<<"status">>)} >>
Clean(kind, d) ==
  LET e == Strip(d, StatusLines \o CleanLines(kind))
      f == CASE kind = "Secret" -> CleanSecret(e)
             [] kind = "ServiceAccount" -> CleanServiceAccount(e)
             [] OTHER -> e
  IN  Strip(f, CleanMetadata(<<>>))

------------------------------------------------------------------------------
(* default.go *)

ProbeDefaults(probe) ==
  { << <<probe, "failureThreshold">>, "3" >>, << <<probe, "periodSeconds">>, "10" >>,
    << <<probe, "successThreshold">>, "1" >>, << <<probe, "timeoutSeconds">>, "1" >> }

(* Mutant: the protocol of a container's port stays. *)
MutContainerSpec(at) ==
  {DropIf(at \o <<"resources">>, EmptyMap)}
    \cup DropDefaults(at, ProbeDefaults("livenessProbe") \cup ProbeDefaults("readinessProbe")
           \cup { << <<"terminationMessagePath">>, "/dev/termination-log" >>,
                  << <<"terminationMessagePolicy">>, "File" >> })

DefaultContainerSpec(at) ==
  {DropIf(at \o <<"resources">>, EmptyMap)}
    \cup DropDefaults(at, ProbeDefaults("livenessProbe") \cup ProbeDefaults("readinessProbe")
           \cup { << <<"ports", Star, "protocol">>, "TCP" >>,
                  << <<"terminationMessagePath">>, "/dev/termination-log" >>,
                  << <<"terminationMessagePolicy">>, "File" >> })

DefaultPodSpec(at) ==
  DefaultContainerSpec(at \o <<"containers", Star>>)
    \cup DefaultContainerSpec(at \o <<"initContainers", Star>>)
    \cup { DropIf(at \o <<"securityContext">>, EmptyMap), Drop(at \o <<"serviceAccount">>) }
    \cup DropDefaults(at,
           { << <<"dnsPolicy">>, "ClusterFirst" >>, << <<"restartPolicy">>, "Always" >>,
             << <<"schedulerName">>, "default-scheduler" >>,
             << <<"terminationGracePeriodSeconds">>, "30" >>,
             << <<"volumes", Star, "configMap", "defaultMode">>, "420" >>,
             << <<"volumes", Star, "hostPath", "type">>, "" >>,
             << <<"volumes", Star, "secret", "defaultMode">>, "420" >> })

(* A strategy: the values first, then the maps they leave empty. *)
Strategy(at, values) ==
  << DropDefaults(at \o <<"rollingUpdate">>, values),
     {DropIf(at \o <<"rollingUpdate">>, EmptyMap)},
     {DropIf(at \o <<"type">>, Leaf("RollingUpdate"))},
     {DropIf(at, EmptyMap)} >>

PodSpec == PodTemplate \o <<"spec">>

DefaultLines(kind) ==
  CASE kind = "CronJob.batch" ->
         << DefaultPodSpec(JobTemplate \o PodSpec),
            DropDefaults(<<"spec">>, { << <<"concurrencyPolicy">>, "Allow" >>,
                                       << <<"failedJobsHistoryLimit">>, "1" >>,
                                       << <<"successfulJobsHistoryLimit">>, "3" >>,
                                       << <<"suspend">>, "false" >> }) >>
    [] kind = "DaemonSet.apps" ->
         << DropDefaults(<<"spec">>, { << <<"revisionHistoryLimit">>, "10" >> }) \cup DefaultPodSpec(PodSpec) >>
           \o Strategy(<<"spec", "updateStrategy">>, { << <<"maxUnavailable">>, "1" >> })
    [] kind = "Deployment.apps" ->
         << DropDefaults(<<"spec">>, { << <<"progressDeadlineSeconds">>, "600" >>,
                                       << <<"revisionHistoryLimit">>, "10" >> }) >>
           \o Strategy(<<"spec", "strategy">>,
                       { << <<"maxSurge">>, "25%" >>, << <<"maxUnavailable">>, "25%" >> })
           \o << DefaultPodSpec(PodSpec) >>
    [] kind = "Secret" -> << DropDefaults(<<>>, { << <<"type">>, "Opaque" >> }) >>
    [] kind = "Service" ->
         << DropDefaults(<<"spec">>, { << <<"ports", Star, "protocol">>, "TCP" >>,
                                       << <<"sessionAffinity">>, "None" >>,
                                       << <<"type">>, "ClusterIP" >> }) >>
    [] kind = "StatefulSet.apps" ->
         << DropDefaults(<<"spec">>, { << <<"podManagementPolicy">>, "OrderedReady" >>,
                                       << <<"revisionHistoryLimit">>, "10" >>,
                                       << <<"serviceName">>, "" >> }) >>
           \o Strategy(<<"spec", "updateStrategy">>, { << <<"partition">>, "0" >> })
           \o << DefaultPodSpec(PodSpec) >>
    [] kind = "StorageClass.storage.k8s.io" ->
         << DropDefaults(<<>>, { << <<"reclaimPolicy">>, "Delete" >>,
                                 << <<"volumeBindingMode">>, "Immediate" >> }) >>
    [] kind = "Namespace" -> << {Drop(<<"spec">>)} >>
    [] kind = "CustomResourceDefinition" -> << {Drop(<<"status">>)} >>
    [] OTHER -> <<>>

(* A port of a Service needs no targetPort that repeats it. *)
Ports == <<"spec", "ports", Star>>
SamePorts(d) ==
  {Append(p, "targetPort") : p \in {p \in Get(d, MustCompile(Ports)) :
     /\ Append(p, "targetPort") \in DOMAIN d
     /\ d[Append(p, "targetPort")] = d[Append(p, "port")]}}

Defaults(kind, d) ==
  LET e == Strip(d, DefaultLines(kind))
  IN  IF kind = "Service" THEN CutAt(e, SamePorts(e)) ELSE e

------------------------------------------------------------------------------
(* The comparison of write(). *)

MarkSyncPodOwned(d) ==
  LET e == IF <<"metadata", "labels">> \in DOMAIN d THEN d
           ELSE PutAt(d, {<<"metadata", "labels">>}, EmptyMap)
  IN  PutAt(e, {<<"metadata", "labels", "owned">>}, Leaf("true"))

Copy(from, to, path) ==
  PutAt(to, {path}, IF path \in DOMAIN from THEN SubDocument(from, path) ELSE Null)

(* Mutant: a LoadBalancer keeps its policy, but not the node ports. *)
MutSpecialObjects(kind, existing, o) ==
  CASE kind = "Service" ->
         LET e == IF <<"spec", "type">> \in DOMAIN existing /\ existing[<<"spec", "type">>] = "LoadBalancer"
                    THEN Copy(existing, o, <<"spec", "externalTrafficPolicy">>) ELSE o
         IN  Copy(existing, e, <<"spec", "clusterIP">>)
    [] OTHER -> o

HandleSpecialObjects(kind, existing, o) ==
  CASE kind = "Service" ->
         LET e == IF <<"spec", "type">> \in DOMAIN existing /\ existing[<<"spec", "type">>] = "LoadBalancer"
                    THEN Copy(existing, Copy(existing, o, <<"spec", "externalTrafficPolicy">>),
                              <<"spec", "ports">>)
                    ELSE o
         IN  Copy(existing, e, <<"spec", "clusterIP">>)
    [] kind = "OperatorGroup.operators.coreos.com" ->
         Set(o, MustCompile(Annotation("olm.providedAPIs")), Leaf(""))
    [] OTHER -> o

Existing(kind, live) == Defaults(kind, Clean(kind, live))
NeedsUpdate(existing, draft) == existing # draft

------------------------------------------------------------------------------
(* The order of the lines.  A map is only deleted if it is empty, so what  *)
(* may hang in it has to go first; otherwise the next pass would find it   *)
(* empty and delete what this one has left.                                *)

Line == [path : Seq(STRING) \ {<<>>}, is : {Whatever} \cup [{<<>>} -> STRING]]
Stages == Seq(SUBSET Line)
NodeLine(l) == l.is # Whatever /\ l.is[<<>>] \in Node
MayBe(j, k) == j = Star \/ k = Star \/ Atoi(j) = Atoi(k)
Over(l, keys) == Len(l.path) <= Len(keys) /\ \A n \in DOMAIN l.path : MayBe(l.path[n], keys[n])
Under(a, b) == Len(a.path) # Len(b.path) /\ Over(a, b.path)
Orderly(stages) ==
  /\ stages \in Stages
  /\ \A n \in DOMAIN stages : \A a \in {a \in stages[n] : NodeLine(a)} :
       \A m \in n..Len(stages) : \A b \in stages[m] : ~Under(a, b)

NormalLines(kind) ==
  ((StatusLines \o CleanLines(kind)) \o CleanMetadata(<<>>)) \o DefaultLines(kind)
SecretLines == (DataLines \o CleanMetadata(<<>>)) \o DefaultLines("Secret")
(* The kinds clean.go and default.go know, and one they do not. *)
Kinds ==
  { "CronJob.batch", "DaemonSet.apps", "Deployment.apps", "DeploymentConfig.apps.openshift.io",
    "ImageStream.image.openshift.io", "Namespace", "Service", "StatefulSet.apps", "Secret",
    "ServiceAccount", "StorageClass.storage.k8s.io", "CustomResourceDefinition", "ConfigMap" }
Number == Append(Ports, "port")
Target == Append(Ports, "targetPort")
(* No constant occurs here: TLC evaluates it once and for all. *)
ASSUME LinesAssumption ==
  /\ \A kind \in Kinds :
       /\ CleanLines(kind) \in Stages /\ DefaultLines(kind) \in Stages
       /\ Orderly(NormalLines(kind))
  /\ {CleanMetadata(<<>>), DataLines} \subseteq Stages
  /\ Orderly(StatusLines) /\ Orderly(TokenLines) /\ Orderly(SecretLines)
  /\ \A n \in DOMAIN NormalLines("Service") : \A l \in NormalLines("Service")[n] :
       ~Over(l, Number) /\ ~Over(l, Target)
  /\ {<<"type">>, <<"stringData">>, Ports, Number, Target} \subseteq Seq(STRING)
==============================================================================
