------------------------------ MODULE MCProfiles ------------------------------
(* Profiles for TLC, one of its parts moving in a behaviour as in MCSaves. *)
EXTENDS Profiles, TLC

VARIABLE focus

Components == {"souvenirs", "reports", "links", "profile"}

Itself == [s \in Shots |-> s]
Spelled == "a" :> "A" @@ "A" :> "A" @@ "b" :> "B" @@ "B" :> "B" @@ "k" :> "K" @@ "K" :> "K"
Entry(name, time) == [name |-> name, time |-> time]
SyncPayloads ==
    {[game |-> "game", entries |-> <<Entry("a", 2)>>,
      shots |-> <<[id |-> s, names |-> {"a"}]>>] : s \in Shots}
    \cup {[game |-> "game", entries |-> <<Entry("none", 1), Entry("A", 1), Entry("b", 99)>>, shots |-> <<>>]}

Definition(name, display, ext) == [name |-> name, display |-> display, ext |-> ext]
Stores == <<"steam", "epic", "dlc">>
Linkings ==
    {"steam" :> "c" @@ "epic" :> "c" @@ "dlc" :> "c",
     "steam" :> "c" @@ "epic" :> "unlinked" @@ "dlc" :> "c",
     "steam" :> "c" @@ "epic" :> "c" @@ "dlc" :> "d"}
Catalogues ==
    "steam" :> {<<Definition("A", "x", "none"), Definition("B", "y", "none"),
                  Definition("a", "x", "k")>>,
                <<Definition("none", "x", "none"), Definition("B", "", "none")>>}
    @@ "epic" :> {<<Definition("k", "x", "none"), Definition("B", "x", "none")>>,
                  <<Definition("k", "z", "a"), Definition("b", "", "none")>>}
    @@ "dlc" :> {<<Definition("B", "x", "none")>>, <<>>}
StoredRows ==
    "steam" :> <<<<Entry("a", 3), Entry("none", 1)>>, <<Entry("A", 2), Entry("B", -1)>>>>
    @@ "epic" :> <<<<Entry("K", 5), Entry("A", 4)>>>>
    @@ "dlc" :> <<>>

Shops == "placed" :> "steam" @@ "unplaced" :> "none"

MCInit ==
    /\ focus \in Components
    /\ ProfilesInit
    /\ focus # "reports" => public = Pictures /\ account = "PUBLIC"
    /\ focus # "links" => links["epic"] = "c" /\ links["dlc"] = "c"

MCNext ==
    /\ \/ focus = "souvenirs" /\ SouvenirsStep
       \/ focus = "reports" /\ ReportsStep
       \/ focus = "links" /\ LinksStep
       \/ focus = "profile" /\ ProfileStep
    /\ UNCHANGED focus

MCSpec == MCInit /\ [][MCNext]_<<focus, allVars>>

Symmetry == {f @@ g : f \in Permutations(Shots), g \in Permutations(Workers)}
=============================================================================
