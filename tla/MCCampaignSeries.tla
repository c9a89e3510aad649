--------------------------- MODULE MCCampaignSeries ---------------------------
(* RepairablePoints: all but the points at which the lock a killed command     *)
(* leaves is one that reconcile refuses, the repair's own after its first      *)
(* write included (campaign_series.py:1011-1049).                             *)
EXTENDS CampaignSeries, TLC

CONSTANTS c1, c2, p1, p2

Symmetry == Permutations(Procs) \cup Permutations(Campaigns)

AllPoints == LockedPoints \cup RepairPoints \cup RunPoints \cup {"unlocked", "started"}
RepairablePoints ==
  AllPoints \ {"initialize", "directory", "allocating", "catching up", "appending",
               "evidence repaired", "campaign repaired", "entry repaired"}
NoPoints == {}
==============================================================================
