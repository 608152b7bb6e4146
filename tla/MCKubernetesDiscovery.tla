----------------------- MODULE MCKubernetesDiscovery -----------------------
(***************************************************************************)
(* Small instances of KubernetesDiscovery for TLC.                         *)
(***************************************************************************)
EXTENDS KubernetesDiscovery

CONSTANTS u1, u2, n80, n81, http

Service(port) == <<port, http, port, http>>

NewPod(u, details, valid_address, services) ==
    [uid |-> u, details |-> details, valid_address |-> valid_address,
     phase |-> "Pending", services |-> services]

\* A plain pod, whose parts may still be missing, beside one that may have two
\* services, a bad address or no uid.
MixedPods ==
    {NewPod(u2, FALSE, TRUE, <<Service(n80)>>),
     NewPod(u2, TRUE, TRUE, <<Service(n80)>>),
     NewPod(None, TRUE, TRUE, <<Service(n80)>>),
     NewPod(u1, TRUE, FALSE, <<Service(n80)>>),
     NewPod(u1, TRUE, TRUE, <<Service(n80), Service(n81)>>)}

\* A pod with one service or none.
PlainPods == {NewPod(u1, details, TRUE, services) :
                 details \in BOOLEAN, services \in {<<Service(n80)>>, <<>>}}

\* Failed stands for Unknown too: apply_pod suspends the pod in both.
LifePhases == {"Pending", "Running", "Succeeded", "Failed"}
LivePhases == {"Pending", "Running"}
EndPhases == {"Succeeded", "Failed"}
=============================================================================
