------------------------------ MODULE GeoFusion ------------------------------
(* fusion/geo_fusion_node.py: lidar clusters take their class from the       *)
(* camera, a tracker gives them a number, and the confirmed tracks are       *)
(* published.  Places lie on a line, which serves as the bearing and as the  *)
(* position, in steps the gate and the tolerances are multiples of.  The     *)
(* Kalman filter is what it does to the decisions: the predicted place is    *)
(* the measured one give or take a drift for each frame since, which stands  *)
(* for the object's motion, the boat's and the filter's error alike.         *)
(*                                                                           *)
(* The lists are sets with the order in a field: clusters and measurements   *)
(* have that of their first point, and the tracker's list is that of the     *)
(* numbers, since a new track is appended and the filter keeps the order.    *)
EXTENDS Integers, FiniteSets, FiniteSetsExt

CONSTANTS
    ClusterTol,         \* cluster_tolerance
    MinCluster,         \* min_cluster_points
    BearingTol,         \* bearing_match_tol_deg
    Gate,               \* track_gate_m
    ConfirmHits,        \* track_confirm_hits
    MaxMisses,          \* track_max_misses
    Unknown             \* the class of a cluster no detection matches

VARIABLES
    fix,            \* whether a GPS fix has come in: self._fix
    tracks,         \* Tracker.tracks
    nextId,         \* _Track._next_id
    trackId,        \* the o["track_id"] of the last frame: the place and the number
    obstacles       \* the obstacles last published on /obstacles/global

geoVars == <<fix, tracks, nextId, trackId, obstacles>>

GeoInit == fix = FALSE /\ tracks = {} /\ nextId = 0 /\ trackId = {} /\ obstacles = {}

FixCallback == fix' = TRUE /\ UNCHANGED <<tracks, nextId, trackId, obstacles>>

---------------------------------------------------------------------------
(* Clustering and association.                                              *)
Gap(a, b) == IF a < b THEN b - a ELSE a - b

(* The clusters, each as its indices: what growing from a point ends with,   *)
(* a set that leaves out no point near one of its own, and no smaller one.   *)
EuclideanCluster(points) ==
    LET grown == {S \in (SUBSET DOMAIN points) \ {{}} :
                    \A j \in S, k \in (DOMAIN points) \ S : Gap(points[j], points[k]) > ClusterTol}
    IN  {c \in grown : Cardinality(c) >= MinCluster /\ \A S \in grown : S \subseteq c => S = c}

Centroid(points, c) == MapThenSumSet(LAMBDA i : points[i], c) \div Cardinality(c)

(* The unmatched detection with the least error below the tolerance, the     *)
(* first of those that tie; 0 when there is none.                           *)
BestDetection(dets, free, at) ==
    LET within == {i \in free : Gap(dets[i].at, at) < BearingTol}
    IN  IF within = {} THEN 0
        ELSE CHOOSE i \in within : \A j \in within :
                \/ Gap(dets[i].at, at) < Gap(dets[j].at, at)
                \/ Gap(dets[i].at, at) = Gap(dets[j].at, at) /\ i <= j

(* The lidar objects, each with a class; in the order of the clusters each  *)
(* takes a detection that no earlier one took.  Detections without a        *)
(* cluster are not tracked.                                                 *)
Fuse(dets, points) ==
    LET clusters == EuclideanCluster(points)
        best[c \in clusters] ==
            LET taken == {best[e] : e \in {f \in clusters : Min(f) < Min(c)}}
            IN  BestDetection(dets, DOMAIN dets \ taken, Centroid(points, c))
    IN  {[first |-> Min(c), at |-> Centroid(points, c),
          cls |-> IF best[c] = 0 THEN Unknown ELSE dets[best[c]].cls] : c \in clusters}

---------------------------------------------------------------------------
(* The tracker.                                                             *)
Predict(tr, drift) == [tr EXCEPT !.at = @ + drift]

\* Mutant: the misses of a track are not reset by a hit.
HitKeepingMisses(tr, o) ==
    [tr EXCEPT !.at = o.at, !.cls = o.cls, !.hits = @ + 1,
               !.confirmed = @ \/ tr.hits + 1 >= ConfirmHits]

(* A track that a measurement was assigned to.                              *)
Hit(tr, o) ==
    [tr EXCEPT !.at = o.at, !.cls = o.cls, !.hits = @ + 1, !.misses = 0,
               !.confirmed = @ \/ tr.hits + 1 >= ConfirmHits]

Miss(tr) == [tr EXCEPT !.misses = @ + 1]

NewTrack(o, id) == [id |-> id, at |-> o.at, cls |-> o.cls,
                    hits |-> 1, misses |-> 0, confirmed |-> FALSE]

Kept(tr) == tr.misses <= MaxMisses

(* The pairs of a measurement and a track within the gate, the nearest      *)
(* first: each is used unless one before it has used its measurement or its *)
(* track.                                                                   *)
Assign(meas, trs) ==
    LET pairs == {p \in meas \X trs : Gap(p[1].at, p[2].at) <= Gate}
        Dist(p) == Gap(p[1].at, p[2].at)
        Before(p, q) == \/ Dist(p) < Dist(q)
                        \/ Dist(p) = Dist(q) /\ p[1].first < q[1].first
                        \/ Dist(p) = Dist(q) /\ p[1] = q[1] /\ p[2].id < q[2].id
        Rivals(p) == {q \in pairs : Before(q, p) /\ (q[1] = p[1] \/ q[2] = p[2])}
        used[p \in pairs] == \A q \in Rivals(p) : ~used[q]
    IN  {p \in pairs : used[p]}

Update(meas, drift) ==
    LET predicted == {Predict(tr, drift[tr]) : tr \in tracks}
        used == Assign(meas, predicted)
        hit == {Hit(u[2], u[1]) : u \in used}
        missed == {Miss(tr) : tr \in {t \in predicted : \A u \in used : u[2] # t}}
        fresh == {m \in meas : \A u \in used : u[1] # m}
        new == {NewTrack(m, nextId + Cardinality({n \in fresh : n.first < m.first})) : m \in fresh}
    IN  /\ tracks' = {tr \in hit \cup missed \cup new : Kept(tr)}
        /\ nextId' = nextId + Cardinality(fresh)
        /\ trackId' = {[at |-> u[1].at, id |-> u[2].id] : u \in used}
                        \cup {[at |-> tr.at, id |-> tr.id] : tr \in new}

(* The number 0 is kept for an obstacle that is not tracked.                *)
MakeObstacle(tr) == [id |-> tr.id + 1, class_id |-> tr.cls, at |-> tr.at]

(* A pair of frames the synchroniser matched.  Without a fix, or without     *)
(* the transform of the map, the frame is passed over.                      *)
FusedCallback(dets, points, drift, tf) ==
    IF fix /\ tf
    THEN /\ Update(Fuse(dets, points), drift)
         /\ obstacles' = {MakeObstacle(tr) : tr \in {t \in tracks' : t.confirmed}}
         /\ UNCHANGED fix
    ELSE UNCHANGED geoVars
=============================================================================
