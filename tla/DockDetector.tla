---------------------------- MODULE DockDetector ----------------------------
(* perception/dock_detector_node.py: the U-shaped berths of one lidar scan. *)
(* A point is <<x, y>> in decimetres, x ahead of the boat and y to port, the *)
(* boat at the origin; lengths are centimetres, as the parameters are.      *)
(* Angles are kept as tangents per mille, which is close enough below the   *)
(* tolerance of twelve degrees, and confidences per mille.  The two hundred  *)
(* draws of RANSAC are taken to find a line with the most inliers; which of  *)
(* the lines that tie is left open.                                         *)
EXTENDS Integers, FiniteSets, Sequences, SequencesExt, FiniteSetsExt

CONSTANTS
    QuarterTurns,           \* lidar_yaw_offset_deg / 90
    ClusterEps,             \* cluster_eps, in decimetres
    ClusterMinSamples,      \* cluster_min_samples
    RansacMinInliers,       \* ransac_min_inliers
    MaxLinesPerCluster,     \* max_lines_per_cluster
    BerthWidth, WidthTolerance,
    ArmLengthMin, ArmLengthMax,
    BackWallLengthMin, BackWallLengthMax,
    CornerGapTolerance,
    OccupancyMargin, OccupancyMinPoints,
    NoReturn                \* a beam that came back without a finite range

TanTolerance == 213         \* parallel_angle_tol_deg, perp_angle_tol_deg: tan 12 deg

Minus(p, q) == <<p[1] - q[1], p[2] - q[2]>>
Plus(p, q) == <<p[1] + q[1], p[2] + q[2]>>
Dot(u, v) == u[1] * v[1] + u[2] * v[2]
Cross(u, v) == u[1] * v[2] - u[2] * v[1]
AbsOf(n) == IF n < 0 THEN -n ELSE n

(* The integer square root, by bisection of lo .. hi - 1.                  *)
RECURSIVE Root(_, _, _)
Root(n, lo, hi) ==
    IF hi - lo <= 1 THEN lo
    ELSE LET mid == (lo + hi) \div 2
         IN  IF mid * mid <= n THEN Root(n, mid, hi) ELSE Root(n, lo, mid)

Length(v) == Root(100 * Dot(v, v), 0, 2000)         \* centimetres

---------------------------------------------------------------------------
(* The scan.                                                                *)

(* Points whose coordinates are finite.                                    *)
ReadXY(cloud) == cloud \ {NoReturn}

QuarterTurn(p) == <<-p[2], p[1]>>
RECURSIVE Turned(_, _)
Turned(p, n) == IF n = 0 THEN p ELSE Turned(QuarterTurn(p), n - 1)

RotateIntoBaseLink(points) == {Turned(p, QuarterTurns) : p \in points}

---------------------------------------------------------------------------
(* DBSCAN.                                                                  *)
Near(points, p) ==
    {q \in points : Dot(Minus(p, q), Minus(p, q)) <= ClusterEps * ClusterEps}

RECURSIVE Reached(_, _, _)
Reached(core, front, seen) ==
    IF front = {} THEN seen
    ELSE LET next == UNION {Near(core, p) : p \in front} \ seen
         IN  Reached(core, next, seen \cup next)

(* The clusters, as a set: the core points that reach each other, with what *)
(* lies near one of them.  A point near two of them goes to the one found   *)
(* first, which is left to CHOOSE.                                          *)
Clusters(points) ==
    LET core == {p \in points : Cardinality(Near(points, p)) >= ClusterMinSamples}
        parts == {Reached(core, {p}, {p}) : p \in core}
        Home(p) == CHOOSE c \in parts : Near(c, p) # {}
    IN  {c \cup {p \in points \ core : Near(core, p) # {} /\ Home(p) = c} : c \in parts}

---------------------------------------------------------------------------
(* RANSAC.                                                                  *)

(* Points no further than three centimetres from the line through p and q:  *)
(* 0.3^2 is one eleventh.                                                   *)
Inliers(points, p, q) ==
    LET d == Minus(q, p)
        square == Dot(d, d)
        Off(r) == Cross(d, Minus(r, p))
    IN  {r \in points : 11 * Off(r) ^ 2 <= square}

\* A line through two points is drawn from the nearer one.
BestLines(points) ==
    LET pairs == {pq \in points \X points :
                     pq[1] # pq[2] /\ Dot(pq[1], pq[1]) <= Dot(pq[2], pq[2])}
        lines == {Inliers(points, pq[1], pq[2]) : pq \in pairs}
        most == Max({Cardinality(l) : l \in lines} \cup {0})
    IN  {l \in lines : Cardinality(l) = most /\ most >= RansacMinInliers}

(* A wall segment: its outermost inliers, and the share they are of what    *)
(* was left in the cluster.                                                 *)
Segment(line, left) ==
    LET ends == CHOOSE e \in line \X line :
                    \A f \in line \X line :
                        Dot(Minus(e[1], e[2]), Minus(e[1], e[2]))
                          >= Dot(Minus(f[1], f[2]), Minus(f[1], f[2]))
    IN  [p1 |-> ends[1], p2 |-> ends[2], inliers |-> line,
         ratio |-> (1000 * Cardinality(line)) \div Cardinality(left)]

(* Every sequence of segments the loop may peel off a cluster.             *)
RECURSIVE RansacLines(_, _)
RansacLines(left, rounds) ==
    LET best == IF rounds = 0 \/ Cardinality(left) < RansacMinInliers THEN {}
                ELSE BestLines(left)
    IN  IF best = {} THEN {<<>>}
        ELSE UNION {{<<Segment(l, left)>> \o rest :
                        rest \in RansacLines(left \ l, rounds - 1)} : l \in best}

(* The shared list of all clusters: one outcome of RANSAC for each.        *)
GlobalSegments(points) ==
    LET Add(c, lists) == {a \o b : a \in lists, b \in RansacLines(c, MaxLinesPerCluster)}
    IN  IF Cardinality(points) < ClusterMinSamples THEN {<<>>}
        ELSE FoldSet(Add, {<<>>}, Clusters(points))

---------------------------------------------------------------------------
(* U shapes.                                                                *)
Vector(s) == Minus(s.p2, s.p1)

(* The tangent of the angle between two undirected lines.                  *)
AngleDifference(u, v) ==
    IF Dot(u, v) = 0 THEN 1000000
    ELSE (1000 * AbsOf(Cross(u, v))) \div AbsOf(Dot(u, v))

NearEnd(s) == IF Dot(s.p1, s.p1) <= Dot(s.p2, s.p2) THEN s.p1 ELSE s.p2
FarEnd(s)  == IF NearEnd(s) = s.p1 THEN s.p2 ELSE s.p1

PointToSegment(p, s) ==
    LET v == Vector(s)
        along == Dot(Minus(p, s.p1), v)
    IN  CASE along <= 0         -> Length(Minus(p, s.p1))
          [] along >= Dot(v, v) -> Length(Minus(p, s.p2))
          [] OTHER              -> (100 * AbsOf(Cross(v, Minus(p, s.p1)))) \div Length(v)

\* Mutant: the normal is left as it falls out of the two ends.
InwardUnturned(back, opening2) == QuarterTurn(Vector(back))

(* The normal of the back wall that points from the opening into the berth. *)
Inward(back, opening2) ==
    LET n == QuarterTurn(Vector(back))
    IN  IF Dot(n, Minus(Plus(back.p1, back.p2), opening2)) < 0
        THEN <<-n[1], -n[2]>> ELSE n

(* The berth that back, a and b make; opening2 is twice its opening centre. *)
Candidate(segs, back, a, b) ==
    LET sb == segs[back]   sa == segs[a]   sc == segs[b]
        parallel == AngleDifference(Vector(sa), Vector(sc))
        perp == AngleDifference(Vector(sa), QuarterTurn(Vector(sb)))
                  + AngleDifference(Vector(sc), QuarterTurn(Vector(sb)))
        gaps == PointToSegment(FarEnd(sa), sb) + PointToSegment(FarEnd(sc), sb)
        width == Length(Minus(NearEnd(sa), NearEnd(sc)))
        opening2 == Plus(NearEnd(sa), NearEnd(sc))
        score == (1000 * parallel) \div TanTolerance + (500 * perp) \div TanTolerance
                   + (1000 * AbsOf(width - BerthWidth)) \div WidthTolerance
                   + (500 * gaps) \div CornerGapTolerance
    IN  [opening2 |-> opening2, inward |-> Inward(sb, opening2), width |-> width,
         depth |-> (Length(Vector(sa)) + Length(Vector(sc))) \div 2,
         confidence |-> (Max({0, 1000 - score \div 4})
                           * ((sa.ratio + sb.ratio + sc.ratio) \div 3)) \div 1000,
         segments |-> {back, a, b},
         walls |-> sa.inliers \cup sb.inliers \cup sc.inliers]

IsUShape(segs, back, a, b) ==
    LET sb == segs[back]   sa == segs[a]   sc == segs[b]
    IN  /\ Length(Vector(sb)) \in BackWallLengthMin .. BackWallLengthMax
        /\ \A s \in {sa, sc} :
              /\ Length(Vector(s)) \in ArmLengthMin .. ArmLengthMax
              /\ AngleDifference(Vector(s), QuarterTurn(Vector(sb))) <= TanTolerance
        /\ AngleDifference(Vector(sa), Vector(sc)) <= TanTolerance
        /\ PointToSegment(FarEnd(sa), sb) + PointToSegment(FarEnd(sc), sb)
             <= 2 * CornerGapTolerance
        /\ AbsOf(Length(Minus(NearEnd(sa), NearEnd(sc))) - BerthWidth) <= WidthTolerance

(* Two candidates that share two segments are taken for one berth.         *)
IsDuplicate(c, kept) ==
    \E i \in DOMAIN kept : Cardinality(c.segments \cap kept[i].segments) >= 2

(* The candidates, the most confident first and those that tie in the order *)
(* of the loops, less the duplicates of a better one.                       *)
FindUShapes(segs) ==
    LET triples == {t \in (DOMAIN segs) \X (DOMAIN segs) \X (DOMAIN segs) :
                       /\ t[2] < t[3] /\ t[1] \notin {t[2], t[3]}
                       /\ IsUShape(segs, t[1], t[2], t[3])}
        Cand(t) == Candidate(segs, t[1], t[2], t[3])
        Earlier(s, t) == \/ s[1] < t[1]
                         \/ s[1] = t[1] /\ s[2] < t[2]
                         \/ s[1] = t[1] /\ s[2] = t[2] /\ s[3] < t[3]
        Better(s, t) == \/ Cand(s).confidence > Cand(t).confidence
                        \/ Cand(s).confidence = Cand(t).confidence /\ Earlier(s, t)
        Keep(kept, t) == IF IsDuplicate(Cand(t), kept) THEN kept ELSE Append(kept, Cand(t))
    IN  FoldLeft(Keep, <<>>, SetToSortSeq(triples, Better))

---------------------------------------------------------------------------
(* Occupied or free, and what is published.                                 *)
ClassifyOccupied(match, points) ==
    LET n == match.inward
        Deep(p) == (50 * Dot(Minus(Plus(p, p), match.opening2), n)) \div Length(n)
        Side(p) == (50 * AbsOf(Cross(n, Minus(Plus(p, p), match.opening2)))) \div Length(n)
        inside == {p \in points :
                     /\ Deep(p) >= OccupancyMargin
                     /\ Deep(p) <= match.depth - OccupancyMargin
                     /\ Side(p) <= match.width \div 2 - OccupancyMargin}
    IN  Cardinality(inside \ match.walls) >= OccupancyMinPoints

Berth(match, points) ==
    [opening2 |-> match.opening2, width |-> match.width, confidence |-> match.confidence,
     occupied |-> ClassifyOccupied(match, points)]

(* The first of the free berths with the highest confidence, or none.      *)
BestFree(targets) ==
    LET free == {i \in DOMAIN targets : ~targets[i].occupied}
    IN  IF free = {} THEN [detected |-> FALSE]
        ELSE [detected |-> TRUE,
              berth |-> targets[CHOOSE i \in free : \A j \in free :
                          \/ targets[i].confidence > targets[j].confidence
                          \/ targets[i].confidence = targets[j].confidence /\ i <= j]]

VARIABLES targets,      \* the DockTargetArray last published
          target        \* the DockTarget last published

dockVars == <<targets, target>>

NothingPublished == targets = <<>> /\ target = [detected |-> FALSE]

(* One scan, from the cloud to the two messages.                            *)
PointCloudCallback(cloud) ==
    LET points == RotateIntoBaseLink(ReadXY(cloud))
    IN  \E segs \in GlobalSegments(points) :
            LET matches == IF Len(segs) < 3 THEN <<>> ELSE FindUShapes(segs)
            IN  /\ targets' = [i \in DOMAIN matches |-> Berth(matches[i], points)]
                /\ target' = BestFree(targets')
=============================================================================
