---------------------------- MODULE MCDocuments -----------------------------
(***************************************************************************)
(* The instance of Documents for TLC: the kinds and routes of Entities,    *)
(* two clients, and a few kinds at a time with what they stand on.         *)
(***************************************************************************)
EXTENDS Documents, Entities

MCKind == DOMAIN KeyOf

\* A set of kinds and what its creation needs, three checks deep.
Needs(S) == S \cup UNION {{p \in MCKind : KeyOf[p] \subseteq KeyOf[k]}
                          \cup {p \in MCKind : \E i \in DOMAIN RoutesOf[k].POST :
                                  /\ RoutesOf[k].POST[i].op = "present"
                                  /\ RoutesOf[k].POST[i].kind = p} : k \in S}
About(S) == [about |-> S, standing |-> Needs(Needs(Needs(S))) \ S]

MCFocuses ==
    {About(S) : S \in
       {{"Project", "CompositeApp"}, {"Project", "LogicalCloud"},
        {"CompositeApp", "App"}, {"CompositeApp", "CompositeProfile"},
        {"CompositeProfile", "AppProfile"},
        {"CompositeApp", "DeploymentIntentGroup"},
        {"DeploymentIntentGroup", "GenericPlacementIntent"},
        {"GenericPlacementIntent", "AppIntent"},
        {"DeploymentIntentGroup", "Intent"},
        {"DeploymentIntentGroup", "NetControlIntent"},
        {"NetControlIntent", "WorkloadIntent"},
        {"WorkloadIntent", "WorkloadIfIntent"}, {"NetControlIntent", "Chain"},
        {"Controller"}, {"ClusterProvider", "Cluster"},
        {"Cluster", "ClusterLabel"}, {"Cluster", "ClusterKvPairs"},
        {"Cluster", "Network"}, {"Cluster", "ProviderNet"},
        {"LogicalCloud", "ClusterReference"}, {"LogicalCloud", "Quota"},
        {"LogicalCloud", "KeyValue"}, {"LogicalCloud", "UserPermission"},
        {"Project", "CompositeApp", "LogicalCloud"},
        {"CompositeApp", "App", "CompositeProfile"},
        {"DeploymentIntentGroup", "GenericPlacementIntent", "AppIntent"},
        {"DeploymentIntentGroup", "NetControlIntent", "Chain"},
        {"Cluster", "ClusterLabel", "Network"}}}

Clients == Permutations(Client)

=============================================================================
