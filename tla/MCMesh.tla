------------------------------- MODULE MCMesh -------------------------------
(* What nodes do with their peers and with courts, part by part: the settlement
   of a match and its witnesses, the placements of a bucket, the peer tables,
   the chat, a court that looks for a node to settle on.  The parts share no
   state; each behaviour is one of one part, which Init picks. *)
EXTENDS Settlement, Placement, PeerTable, Chat, CourtClient, TLC

VARIABLE part

meshVars == <<part, settlementVars, placementVars, peerVars, chatVars, courtVars>>

CONSTANTS Parts,  \* which of the parts a run is about
          n1, n2, k1, k2, k3
KeySymmetry == Permutations({k1, k2, k3})
Twice == (1 :> n1) @@ (2 :> n2) @@ (3 :> n1)
(* Four players: enough for a placement to have two rivals that are none of each
   other. *)
Apart == (1 :> n1) @@ (2 :> n2) @@ (3 :> n1) @@ (4 :> n2)
MCMatchOf == [c \in 1..2 |-> "m"]
Kind(ranked, placed, by, fixture) ==
    [ranked |-> ranked, placed |-> placed, by |-> by, fixture |-> fixture]
RankedKinds == {Kind(TRUE, TRUE, "players", FALSE), Kind(TRUE, TRUE, "host", FALSE),
                Kind(TRUE, TRUE, "players", TRUE)}

MeshInit ==
    /\ part \in Parts
    /\ SettlementInit /\ PlacementInit /\ PeerInit /\ ChatInit /\ CourtInit
    /\ part # "settlement" => \A s \in Subs : kindOf[s] = Kind(TRUE, TRUE, "host", FALSE)

MeshNext ==
    /\ UNCHANGED part
    /\ \/ /\ part = "settlement" /\ SettlementNext
          /\ UNCHANGED <<placementVars, peerVars, chatVars, courtVars>>
       \/ /\ part = "placement" /\ PlacementNext
          /\ UNCHANGED <<settlementVars, peerVars, chatVars, courtVars>>
       \/ /\ part = "peers" /\ PeerNext
          /\ UNCHANGED <<settlementVars, placementVars, chatVars, courtVars>>
       \/ /\ part = "chat" /\ ChatNext
          /\ UNCHANGED <<settlementVars, placementVars, peerVars, courtVars>>
       \/ /\ part = "court" /\ CourtNext
          /\ UNCHANGED <<settlementVars, placementVars, peerVars, chatVars>>

MeshSpec == MeshInit /\ [][MeshNext]_meshVars

(* Each part's state is what its code keeps. *)
MeshTypeOK == SettlementTypeOK /\ PlacementTypeOK /\ PeerTypeOK /\ ChatTypeOK /\ CourtTypeOK
=============================================================================
