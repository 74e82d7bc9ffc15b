-------------------------- MODULE MCTrackingLedger --------------------------
(***************************************************************************)
(* Finite instances of TrackingLedger for TLC.                             *)
(***************************************************************************)
EXTENDS TrackingLedger, TLC

CONSTANTS p1, p2, origin, hub

OneProc == {p1}
TwoProcs == {p1, p2}
OnePlace == {origin}
TwoPlaces == {origin, hub}
ProcSymmetry == Permutations(TwoProcs)

\* The operations a run lets clients call.
StatusOnly == {"status"}
StatusAndLocation == {"status", "location"}
DeliveryWriters == {"status", "location", "deliver", "deliverAt", "cancel"}
HistoryWriters == {"status", "location", "manual", "cancel"}
LocationAndDelivery == {"location", "deliver"}
=============================================================================
