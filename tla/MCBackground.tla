---------------------------- MODULE MCBackground ----------------------------
(***************************************************************************)
(* What goes on behind the pages of the app: a behaviour is either one of   *)
(* CameraService, or one of ClientCache with clients and contacts: one      *)
(* client to begin with, another and a contact that may come.              *)
(***************************************************************************)
EXTENDS CameraService

CONSTANTS
    a, b, k, Tables, MaxSeconds, MaxWrites, MaxFailures, Polls, Refreshes, None, Idle, Asked
VARIABLES
    side, stored, open, clock, writes, failures, started, cache, cached_snapshot, polls, refreshes

MCTableOf == [row \in {a, b, k} |-> IF row = k THEN "client_contact" ELSE "client"]
K == INSTANCE ClientCache WITH Rows <- {a, b, k}, TableOf <- MCTableOf, FirstRows <- {a}
ASSUME ClientsAssumption == K!CacheAssumption
of_cache == <<stored, open, clock, writes, failures, started, cache, cached_snapshot, polls, refreshes>>

MCInit == /\ side \in {"camera", "cache"} /\ Init /\ K!Init
          \* One transaction at most is underway to begin with.
          /\ Cardinality(DOMAIN open) <= 1
          /\ side = "camera" => open = <<>> /\ \A row \in DOMAIN stored : stored[row].at = 0
MCNext == \/ side = "camera" /\ Next /\ UNCHANGED <<of_cache, side>>
          \/ side = "cache" /\ K!Next /\ UNCHANGED <<vars, side>>
\* Each part is fair in its own behaviours.
MCSpec == /\ MCInit /\ [][MCNext]_<<vars, of_cache, side>>
          /\ Fairness
          /\ (side = "cache" => K!Fairness)

\* Stated in ClientCache: the copy catches up with the database once that no longer changes.
CacheCatchesUp == side = "cache" => K!CacheCatchesUp
=============================================================================
