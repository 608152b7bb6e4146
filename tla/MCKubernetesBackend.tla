------------------------ MODULE MCKubernetesBackend ------------------------
(***************************************************************************)
(* A small instance of KubernetesBackend for TLC.                          *)
(***************************************************************************)
EXTENDS KubernetesBackend

CONSTANTS u1, u2, n80, n81, http

Service(port) == <<port, http, port, http>>

NewPod(u, services) ==
    [uid |-> u, details |-> TRUE, valid_address |-> TRUE,
     phase |-> "Pending", services |-> services]

\* Two pods on one port; one of them is on a second port too, or has a bad
\* string for it.
SharingPods == {NewPod(u1, <<Service(n80), Service(n81)>>),
                NewPod(u1, <<Service(n80), <<n81, http>>>>),
                NewPod(u2, <<Service(n80)>>)}

LivePhases == {"Pending", "Running"}
=============================================================================
