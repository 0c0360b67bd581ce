---------------------------- MODULE PackageShelf ----------------------------
(***************************************************************************)
(* What publishing a runner package promises whoever looks at the output   *)
(* paths: a path is empty until one complete package appears there, all at *)
(* once, and that package stays until the power fails. Then it may be gone *)
(* again, or be there in ruins.                                            *)
(***************************************************************************)
EXTENDS Naturals

CONSTANTS
    Places,     (* output paths                                              *)
    Packages,   (* complete, verified packages                               *)
    Empty,      (* what an output path shows while nothing is there          *)
    Ruined      (* what it shows of a package whose contents were lost       *)

VARIABLES shelf, outages

Init == shelf = [place \in Places |-> Empty] /\ outages = 0

Publish(place) ==
    /\ shelf[place] = Empty
    /\ \E package \in Packages : shelf' = [shelf EXCEPT ![place] = package]
    /\ UNCHANGED outages

Outage ==
    /\ outages' = outages + 1
    /\ shelf' \in [Places -> Packages \cup {Empty, Ruined}]
    /\ \A place \in Places :
          shelf'[place] # shelf[place] =>
             shelf[place] # Empty /\ shelf'[place] \in {Empty, Ruined}

Next == Outage \/ \E place \in Places : Publish(place)

Spec == Init /\ [][Next]_<<shelf, outages>>
=============================================================================
