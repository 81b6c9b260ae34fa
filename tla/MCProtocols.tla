---------------------------- MODULE MCProtocols ----------------------------
(***************************************************************************)
(* The overlay, the instance of a protocol, the trees and the services of  *)
(* a server, for TLC.  They share no state: in each behaviour one of them  *)
(* runs and the others stay as they are at first.                          *)
(***************************************************************************)
EXTENDS MCOverlay, TreeNodeInstance, Trees, Services

CONSTANTS c1, c2, p

\* Two rounds of replies, two notes for a channel of length one, and a message that
\* the protocol does not know.  The announcement has the flag as well, but comes from
\* the parent.
MCDeliveries ==
    <<c1, "reply">> :> 2 @@ <<c2, "reply">> :> 2
        @@ <<p, "announce">> :> 1 @@ <<p, "note">> :> 2 @@ <<c1, "other">> :> 1

\* Two servers on one host and one on another.
MCServers == {<<"h1", 1>>, <<"h1", 2>>, <<"h2", 1>>}

\* Two services with handlers for a message in common, one that registers a handler
\* after its start, a protocol tied to a service and one that a service instantiates.
MCHandles == "ocs" :> {"m1"} @@ "smc" :> {"m1", "m2"}
MCLate == "ocs" :> {"m2"} @@ "smc" :> {}
MCTied == "ocs" :> {"p1"} @@ "smc" :> {}
MCMakes == "ocs" :> {} @@ "smc" :> {"p2"}

VARIABLE active   \* the module that runs

MCInit ==
    /\ Init /\ InstanceInit /\ TreeInit /\ ServicesInit
    /\ active \in {"overlay", "instance", "trees", "services"}

MCNext ==
    \/ /\ active = "overlay" /\ Next
       /\ UNCHANGED <<instance_vars, treeAsked, service_vars, active>>
    \/ /\ active = "instance" /\ InstanceNext
       /\ UNCHANGED <<vars, treeAsked, service_vars, active>>
    \/ /\ active = "trees" /\ TreeNext
       /\ UNCHANGED <<vars, instance_vars, service_vars, active>>
    \/ /\ active = "services" /\ ServicesNext
       /\ UNCHANGED <<vars, instance_vars, treeAsked, active>>

\* The fairness of FairSpec and InstanceFairSpec, for the module that runs.
MCSpec ==
    /\ MCInit /\ [][MCNext]_<<vars, instance_vars, treeAsked, service_vars, active>>
    /\ \A s, d \in Servers : WF_vars(active = "overlay" /\ Handle(s, d))
    /\ \A s \in Servers : WF_vars(active = "overlay" /\ requestTree(s))
    /\ \A s \in Servers : WF_vars(active = "overlay" /\ Pending(s))
    /\ \A s \in Servers, w \in Workers : WF_vars(active = "overlay" /\ Transmit(s, w))
    /\ WF_instance_vars(active = "instance" /\ Reader)
    /\ \A t \in OnChannel : WF_instance_vars(active = "instance" /\ Receive(t))
    /\ WF_instance_vars(active = "instance" /\ nodeDone)

=============================================================================
