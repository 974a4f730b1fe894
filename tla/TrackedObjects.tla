--------------------------- MODULE TrackedObjects ---------------------------
(***************************************************************************)
(* Objects for geo_fusion_node to track: they stay apart, the lidar has    *)
(* enough returns of each for a cluster or not, the camera sees it or not, *)
(* and where the filter expects one drifts from frame to frame.            *)
(***************************************************************************)
EXTENDS GeoFusion, Sequences, SequencesExt

CONSTANTS
    Places,       \* where there is an object
    MaxDrift,     \* how far the prediction strays in a frame
    MaxReturns,   \* bound: returns of an object in a scan
    MaxPoints,    \* bound: returns in a scan
    MaxFrames     \* bound: frames

\* No object comes within the gate of what the filter expects of another, and the
\* filter does not lose its own within the misses that a track survives.
ASSUME ObjectsAssumption ==
    /\ Places \subseteq Int
    /\ {ClusterTol, Gate, MaxMisses, MaxDrift, MaxReturns, MaxPoints, MaxFrames} \subseteq Nat
    /\ MinCluster \in Nat \ {0}
    /\ MaxDrift * (MaxMisses + 1) <= Gate
    /\ \A p, q \in Places : p # q =>
          Gap(p, q) > ClusterTol /\ Gap(p, q) > Gate + MaxDrift * (MaxMisses + 1)

VARIABLES frames,   \* how many there were
          idOf,     \* the number each object was last given, -1 before the first
          gap       \* for how many frames each has not been seen since

objectVars == <<geoVars, frames, idOf, gap>>

Drifts == -MaxDrift .. MaxDrift
ClassOf(p) == <<"class", p>>

ObjectsInit ==
    /\ GeoInit
    /\ frames = 0
    /\ idOf = [p \in Places |-> -1] /\ gap = [p \in Places |-> 0]

Returns(scan, p) == {i \in DOMAIN scan : scan[i] = p}

\* The returns of a scan, each from the place of an object, in the order in which the
\* lidar turns.
Sweeps ==
    {scan \in UNION {[1 .. n -> Places] : n \in 0 .. MaxPoints} :
        /\ \A i, j \in DOMAIN scan : i < j => scan[i] <= scan[j]
        /\ \A p \in Places : Cardinality(Returns(scan, p)) <= MaxReturns}

Seen(scan) == {p \in Places : Cardinality(Returns(scan, p)) >= MinCluster}

NumberOf(p) == (CHOOSE t \in trackId' : t.at = p).id

Frame(scan, shot, tf, drift) ==
    /\ frames < MaxFrames /\ frames' = frames + 1
    /\ FusedCallback(SetToSeq({[at |-> p, cls |-> ClassOf(p)] : p \in shot}),
                     scan, drift, tf)
    /\ idOf' = [p \in Places |-> IF fix /\ tf /\ p \in Seen(scan) THEN NumberOf(p) ELSE idOf[p]]
    /\ gap' = [p \in Places |-> IF ~(fix /\ tf) THEN gap[p]
                                ELSE IF p \in Seen(scan) THEN 0 ELSE gap[p] + 1]

FirstFix == ~fix /\ FixCallback /\ UNCHANGED <<frames, idOf, gap>>

ObjectsNext ==
    \/ FirstFix
    \/ \E scan \in Sweeps, shot \in SUBSET Places, tf \in BOOLEAN,
          drift \in [tracks -> Drifts] : Frame(scan, shot, tf, drift)

ObjectsSpec == ObjectsInit /\ [][ObjectsNext]_objectVars

---------------------------------------------------------------------------
\* An object that is seen again within the misses a track survives has the number it
\* had, although the filter drifted meanwhile, other objects came and went and the
\* camera named it or not (Tracker.update, track_max_misses).
KeepsIdentity ==
    [][\A p \in Places :
          gap'[p] = 0 /\ gap[p] <= MaxMisses /\ idOf[p] >= 0 => idOf'[p] = idOf[p]]_objectVars

=============================================================================
