------------------------------ MODULE MCDrift --------------------------------
(* Objects of every kind clean.go and default.go know, in the form TestLint *)
(* wants, with the fields that matter to them.                              *)
EXTENDS Drift

Index == {"0", "1"}
(* The document with these leaves. *)
Tree(leaves) ==
  LET at == UNION {{SubSeq(p, 1, i) : i \in 0..Len(p)} : p \in DOMAIN leaves}
  IN  [p \in at |->
         IF p \in DOMAIN leaves THEN leaves[p]
         ELSE IF \E q \in DOMAIN leaves : Below(p, q) /\ q[Len(p) + 1] \in Index THEN "list"
         ELSE "map"]
Put(at, d) == [q \in {at \o p : p \in DOMAIN d} |-> d[SubSeq(q, Len(at) + 1, Len(q))]]

Pod ==
  (<<"containers", "0", "image">> :> "i")
    @@ (<<"containers", "0", "ports", "0", "containerPort">> :> "8080")
    @@ (<<"containers", "0", "livenessProbe", "httpGet", "scheme">> :> "HTTP")
    @@ (<<"containers", "0", "livenessProbe", "periodSeconds">> :> "5")
    @@ (<<"containers", "0", "readinessProbe", "exec">> :> "c")
    @@ (<<"containers", "0", "env", "0", "valueFrom", "fieldRef", "apiVersion">> :> "v1")
    @@ (<<"initContainers", "0", "image">> :> "i")
    @@ (<<"serviceAccountName">> :> "sa")
    @@ (<<"volumes", "0", "configMap", "name">> :> "c")
    @@ (<<"volumes", "1", "hostPath", "path">> :> "/p")
Labelled == PodTemplate \o <<"metadata", "labels", "l">> :> "1"
Workload == Put(PodSpec, Pod) @@ Labelled

Case(kd, leaves) == [kind |-> kd, file |-> Tree((<<"metadata", "labels", "managed">> :> "true") @@ leaves)]

Deployed == Workload @@ (<<"spec", "replicas">> :> "1")
SomeCases ==
  { Case("Deployment.apps", Deployed),
    Case("Deployment.apps", Labelled @@ (<<"spec", "strategy", "type">> :> "Recreate")
                              @@ (<<"spec", "replicas">> :> "1")
                              @@ (PodSpec \o <<"restartPolicy">> :> "Never")),
    Case("Deployment.apps", Labelled @@ (<<"spec", "strategy", "rollingUpdate", "maxSurge">> :> "1")
                              @@ (<<"spec", "replicas">> :> "1")
                              @@ (PodSpec \o <<"volumes", "0", "secret", "secretName">> :> "s")),
    Case("DaemonSet.apps", Workload),
    Case("StatefulSet.apps", Workload @@ (<<"spec", "replicas">> :> "1")
                               @@ (<<"spec", "volumeClaimTemplates", "0", "metadata", "name">> :> "v")),
    Case("CronJob.batch", (JobTemplate \o PodSpec \o <<"containers", "0", "image">> :> "i")
                            @@ (JobTemplate \o PodSpec \o <<"containers", "0", "imagePullPolicy">> :> "Always")
                            @@ (JobTemplate \o PodSpec \o <<"restartPolicy">> :> "Never")
                            @@ (<<"spec", "concurrencyPolicy">> :> "Replace")),
    Case("DeploymentConfig.apps.openshift.io", Labelled @@ (PodSpec \o <<"paused">> :> "false")),
    Case("ImageStream.image.openshift.io", <<"spec", "tags", "0", "name">> :> "latest"),
    Case("Namespace", <<"metadata", "annotations", "note">> :> "n"),
    Case("Namespace", <<>>),
    Case("Secret", <<"stringData", "k">> :> "text"),
    Case("Secret", (<<"stringData", "k">> :> "text") @@ (<<"data", "b">> :> "binary")),
    Case("Secret", <<"type">> :> "kubernetes.io/service-account-token"),
    Case("ServiceAccount", <<>>),
    Case("Service", (<<"spec", "ports", "0", "port">> :> "80") @@ (<<"spec", "ports", "1", "port">> :> "443")
                      @@ (<<"spec", "ports", "1", "targetPort">> :> "8443")),
    Case("Service", (<<"spec", "ports", "0", "port">> :> "80") @@ (<<"spec", "type">> :> "LoadBalancer")),
    Case("StorageClass.storage.k8s.io", <<"provisioner">> :> "aws"),
    Case("StorageClass.storage.k8s.io", <<"reclaimPolicy">> :> "Retain"),
    Case("OperatorGroup.operators.coreos.com", (<<"metadata", "annotations", "olm.providedAPIs">> :> "v1")
                                                 @@ (<<"spec", "targetNamespaces", "0">> :> "ns")) }

SomeEncode == ("text" :> "dGV4dA==") @@ ("other" :> "b3RoZXI=")
==============================================================================
