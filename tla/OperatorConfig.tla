--------------------------- MODULE OperatorConfig ---------------------------
(***************************************************************************)
(* What the operator makes of its flags and environment: options           *)
(* (pkg/operator/options.go), platform and cloud provider                  *)
(* (pkg/operator/operator.go, pkg/cloudprovider), the controllers it wires *)
(* (pkg/controllers/controllers.go), the CRDs it installs                  *)
(* (pkg/assets/assets.go) and the kinds its controllers watch.             *)
(*                                                                         *)
(* A setting matters here only by being set or not, and a string that is   *)
(* parsed by the outcome of the parse.  The kinds are those of the target  *)
(* cluster that the operator itself installs.                              *)
(***************************************************************************)
EXTENDS Sequences

Kinds == {"NodePool", "NodeClaim", "NodeOverlay", "EC2NodeClass", "AKSNodeClass",
          "OpenshiftEC2NodeClass", "OpenShiftAzureNodeClass"}

(* The flag and the variables that Validate asks for on a management cluster *)
Required == {"--target-kubeconfig", "CLUSTER_NAME", "CLUSTER_ENDPOINT", "PLATFORM", "REGION",
             "TOKEN_MINTER_IMAGE"}

(* Flags, environment, and the Infrastructure resource of a standalone      *)
(* cluster; credentials are the variables that the platform's provider      *)
(* requires.                                                                *)
Env == [namespace : BOOLEAN, set : SUBSET Required, podName : BOOLEAN, credentials : BOOLEAN,
        management : {"unset", "true", "false", "invalid"},
        uid : {"unset", "invalid", "zero", "positive"},
        platform : {"AWS", "Azure", "None"},
        infrastructure : {"complete", "noPlatformStatus", "noName", "noRegion"}]

-----------------------------------------------------------------------------
(* Options *)

ManagementCluster(env) == env.management = "true"

LoadEnv(env) == env.management # "invalid" /\ env.uid # "invalid"

Validate(env) ==
    /\ env.uid # "zero" /\ env.namespace
    /\ ManagementCluster(env) => Required \subseteq env.set

-----------------------------------------------------------------------------
(* Run *)

discoverInfrastructure(env) ==
    ManagementCluster(env) \/ env.infrastructure \notin {"noPlatformStatus", "noName"}

(* The region of a standalone cluster is discovered for AWS only. *)
HasRegion(env) ==
    IF ManagementCluster(env) THEN "REGION" \in env.set
    ELSE env.platform = "AWS" /\ env.infrastructure # "noRegion"

isPlatformSupported(env) == ManagementCluster(env) \/ env.platform = "AWS"

(* The constructor of either provider *)
New(env) == HasRegion(env) /\ env.credentials

GetCloudProvider(env) == env.platform \in {"AWS", "Azure"} /\ New(env)

(* Does the process get as far as starting its manager? *)
Runs(env) ==
    /\ LoadEnv(env) /\ Validate(env) /\ discoverInfrastructure(env)
    /\ isPlatformSupported(env) => GetCloudProvider(env)

HostedCluster(env) == "--target-kubeconfig" \in env.set /\ ManagementCluster(env)

-----------------------------------------------------------------------------
(* The cloud providers and their assets *)

CoreCRDs == <<"NodePool", "NodeClaim">>

ProviderCRDs(platform) ==
    IF platform = "AWS" THEN <<"EC2NodeClass">> ELSE <<"AKSNodeClass", "NodeOverlay">>

(* HCPNodeClassProvider: its NodeClass, the object watched for the default one *)
WatchObject(platform) ==
    IF platform = "AWS" THEN "OpenshiftEC2NodeClass" ELSE "OpenShiftAzureNodeClass"
HCPCRDs(platform) == <<WatchObject(platform)>>
HCPControllers(platform) == IF platform = "AWS" THEN {"ec2"} ELSE {"azure", "vap"}

(* NodeIdentityVerifier: Azure has none yet *)
HasVerifier(platform) == platform = "AWS"

-----------------------------------------------------------------------------
(* Wiring *)

HasNodeClassProvider(env) == ManagementCluster(env) /\ HostedCluster(env)

(* Mutant: the NodeClass CRDs of the hosted cluster are left to HyperShift. *)
karpenterCRDsOfUpstream(env) == CoreCRDs \o ProviderCRDs(env.platform)

karpenterCRDs(env) ==
    CoreCRDs \o ProviderCRDs(env.platform)
        \o IF HasNodeClassProvider(env) THEN HCPCRDs(env.platform) ELSE <<>>

(* Absent pieces leave their controllers out without an error. *)
NewControllers(env) ==
    {"crd"} \cup
    IF ManagementCluster(env)
      THEN {"karpenter-hcp"}
           \cup (IF HasNodeClassProvider(env)
                   THEN {"default"} \cup HCPControllers(env.platform) ELSE {})
           \cup (IF HostedCluster(env) THEN {"autonodestatus", "hcpdeletion"} ELSE {})
           \cup (IF HostedCluster(env) /\ HasVerifier(env.platform) THEN {"machineapprover"} ELSE {})
      ELSE {"karpenter-ocp", "clusteroperator"}

(* What Run starts: on an unsupported platform only the reporter *)
ControllersToRun(env) ==
    IF isPlatformSupported(env) THEN NewControllers(env) ELSE {"clusteroperator"}

(* The operator's own kinds that the sources of a controller watch: they    *)
(* cannot sync before the CRD exists.                                       *)
WatchedKinds(controller, env) ==
    CASE controller = "default" -> {WatchObject(env.platform)}
      [] controller = "ec2" -> {"OpenshiftEC2NodeClass", "EC2NodeClass"}
      [] controller = "azure" -> {"OpenShiftAzureNodeClass", "AKSNodeClass"}
      [] controller = "autonodestatus" -> {"NodeClaim"}
      [] OTHER -> {}
=============================================================================
