----------------------------- MODULE DockScenes -----------------------------
(***************************************************************************)
(* Scans of a basin for the dock detector: one berth, or two that share a  *)
(* pontoon, each empty or with a hull in it, some distance ahead and to    *)
(* one side of the boat.  Of the points on a ray only the nearest comes    *)
(* back, and of a single berth one more may be missing.                    *)
(***************************************************************************)
EXTENDS DockDetector

VARIABLES scene, cloud, scanned

sceneVars == <<scene, cloud, scanned, dockVars>>

Pitch == 2      \* between two returns of a wall, in decimetres

\* The back wall is a step longer than what it closes, at either end, so that a
\* corner taken with an arm, and one point more, can be missing from each wall.
Arm(x, y)     == {<<x + Pitch * k, y>> : k \in 0 .. 10}
Back(x, y, n) == {<<x + 22, y + Pitch * k>> : k \in -1 .. 10 * n + 1}

\* Nothing, a post, a pile of two, a hull across the mouth, one along the middle,
\* one along a side; relative to the corner of the berth.
Hulls ==
    {{}, {<<6, 10>>}, {<<6, 8>>, <<6, 10>>},
     {<<6, k>> : k \in {4, 6, 8, 10}},
     {<<k, 10>> : k \in {2, 4, 6, 8}},
     {<<k, 14>> : k \in {4, 6, 8}}}

Moved(points, x, y) == {Plus(p, <<x, y>>) : p \in points}

\* A berth: twice the middle of its opening, and the hull in it.
BerthAt(x, y, hull) == [mouth2 |-> <<2 * x, 2 * y + 20>>, hull |-> Moved(hull, x, y)]

\* Dead ahead and near, or further out and to one side.
OneBerth ==
    {[walls |-> Arm(at[1], at[2]) \cup Back(at[1], at[2], 1) \cup Arm(at[1], at[2] + 20),
      berths |-> {BerthAt(at[1], at[2], h)}, lossy |-> TRUE] :
        at \in {<<12, -10>>, <<24, -3>>}, h \in Hulls}

TwoBerths ==
    {[walls |-> Arm(12, -23) \cup Arm(12, -3) \cup Arm(12, 17) \cup Back(12, -23, 2),
      berths |-> {BerthAt(12, -23, h), BerthAt(12, -3, g)}, lossy |-> FALSE] :
        h, g \in Hulls}

\* What the lidar can see of a set of points: no other lies before it.
Shown(points) ==
    {p \in points : \A q \in points \ {p} :
        ~(Cross(p, q) = 0 /\ Dot(p, q) > 0 /\ Dot(q, q) < Dot(p, p))}

NotScanned == cloud = {} /\ scanned = FALSE /\ NothingPublished

SceneInit == scene \in OneBerth \cup TwoBerths /\ NotScanned

NoScene == scene = [walls |-> {}, berths |-> {}, lossy |-> FALSE] /\ NotScanned

\* The scan, in the lidar's own frame, with a beam that met nothing.
Scan ==
    /\ ~scanned /\ scanned' = TRUE
    /\ LET shown == Shown(scene.walls \cup UNION {b.hull : b \in scene.berths})
       IN  \E lost \in {{}} \cup (IF scene.lossy THEN {{p} : p \in shown} ELSE {}) :
            /\ cloud' = shown \ lost
            /\ PointCloudCallback({Turned(p, 4 - QuarterTurns) : p \in cloud'} \cup {NoReturn})
    /\ UNCHANGED scene

---------------------------------------------------------------------------
\* Of a hull the lidar shows too few points to tell it from noise.
Clear(b) == Cardinality(b.hull \cap cloud) < OccupancyMinPoints

\* The berth whose mouth is published, give or take thirty centimetres.
IsAt(b, berth) ==
    LET d == Minus(b.mouth2, berth.opening2) IN Dot(d, d) <= 36

\* The berth the detector sends the boat to is one of the basin and nothing that
\* the scan shows is moored in it, whatever RANSAC drew and whichever point of the
\* scan is missing (DockDetectorNode._classify_occupied, _process).
FreeIsFree ==
    target.detected => \E b \in scene.berths : IsAt(b, target.berth) /\ Clear(b)

=============================================================================
