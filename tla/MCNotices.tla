------------------------------ MODULE MCNotices ------------------------------
(* Model checking of Notices; nothing is symmetric where something is live. *)
EXTENDS ClubNotices, TLC

FairSpec == Board!FairSpec
=============================================================================
