--------------------------- MODULE ObstacleFusion ---------------------------
(***************************************************************************)
(* From the lidar and the camera to the obstacle cloud the costmaps read:  *)
(* perception/lidar_obstacle_node.py, vision/node.py and                   *)
(* perception/fusion_node.py.                                              *)
(*                                                                         *)
(* A direction is an integer, positive to port, and an image column counts *)
(* from the left edge, so that column c looks in direction Middle - c.     *)
(* One row of the image stands for all.  The camera's two topics are best  *)
(* effort and keep one message: any frame's detections may be the last     *)
(* that came in, with the mask of any other.                               *)
(***************************************************************************)
EXTENDS Integers, Sequences, FiniteSets

CONSTANTS
    Middle,         \* the middle column: the image has 2 * Middle - 1 of them
    Astern,         \* every direction the camera does not see
    NoMask,         \* no mask so far
    CameraFrames    \* what the network may find in a frame: a sequence of
                    \* [column, pixels], the box centre and the instance mask

Columns    == 1 .. 2 * Middle - 1
Directions == (1 - Middle .. Middle - 1) \cup {Astern}
Ranges     == {"within", "without"}

ASSUME FramesAssumption ==
    /\ Middle \in Nat \ {0}
    /\ CameraFrames \subseteq Seq([column : Columns, pixels : SUBSET Columns])
    /\ NoMask \notin CameraFrames

VARIABLES
    lidarPts,       \* self._lidar_pts: the directions with a point
    detections,     \* the frame self._detections is of
    segMask,        \* the frame self._seg_mask is of
    fused           \* the last cloud published: [at, label]

fusionVars == <<lidarPts, detections, segMask, fused>>

FusionInit == lidarPts = {} /\ detections = <<>> /\ segMask = NoMask /\ fused = {}

---------------------------------------------------------------------------
\* The segmentation map of a frame: the number of the detection plus one, where masks
\* overlap that of the last.
SegMap(frame) ==
    [c \in Columns |->
        LET over == {i \in DOMAIN frame : c \in frame[i].pixels}
        IN  IF over = {} THEN 0 ELSE CHOOSE i \in over : \A j \in over : j <= i]

\* lidar_obstacle_node: a return between the two ranges is kept.
PointsOf(scan) == {d \in Directions : scan[d] = "within"}

LidarScan(scan) == lidarPts' = PointsOf(scan) /\ UNCHANGED <<detections, segMask, fused>>

DetCallback(frame) == detections' = frame /\ UNCHANGED <<lidarPts, segMask, fused>>

MaskCallback(frame) == segMask' = frame /\ UNCHANGED <<lidarPts, detections, fused>>

---------------------------------------------------------------------------
\* Where a lidar point falls in the image; nothing behind the camera does.
Project(d) == Middle - d

MaskAt(d) == IF d = Astern THEN 0 ELSE SegMap(segMask)[Project(d)]

\* Mutant: the value of the mask taken for the number of the detection.
DetectionWithoutOffset(value) == value

\* The number, from 0, of the detection a mask value stands for.
DetectionOf(value) == value - 1

\* The direction given to a detection without lidar points.
Bearing(column) == column - Middle

\* The ten-hertz timer.  When there is nothing to show nothing is published.
Publish(tf) ==
    LET Labelled(d) == tf /\ segMask # NoMask /\ MaskAt(d) > 0
        covered == {DetectionOf(MaskAt(d)) : d \in {e \in lidarPts : Labelled(e)}}
        cloud == {[at |-> d, label |-> IF Labelled(d) THEN 1 ELSE 0] : d \in lidarPts}
                   \cup {[at |-> Bearing(detections[i].column), label |-> 2] :
                            i \in {j \in DOMAIN detections : j - 1 \notin covered}}
    IN  /\ fused' = IF cloud = {} THEN fused ELSE cloud
        /\ UNCHANGED <<lidarPts, detections, segMask>>

FusionNext ==
    \/ \E scan \in [Directions -> Ranges] : LidarScan(scan)
    \/ \E frame \in CameraFrames : DetCallback(frame)
    \/ \E frame \in CameraFrames : MaskCallback(frame)
    \/ \E tf \in BOOLEAN : Publish(tf)

FusionSpec == FusionInit /\ [][FusionNext]_fusionVars

---------------------------------------------------------------------------
\* When the mask and the detections are of one frame, nothing the camera found is
\* left out of the cloud: each detection has a bearing of its own, or a lidar point
\* confirmed by the mask in a column that shows it (FusionNode._publish).
EveryDetectionIsShown ==
    [][fused' # fused /\ detections = segMask =>
        \A i \in DOMAIN detections :
            \/ [at |-> Bearing(detections[i].column), label |-> 2] \in fused'
            \/ \E d \in lidarPts \ {Astern} :
                  /\ SegMap(detections)[Project(d)] = i
                  /\ [at |-> d, label |-> 1] \in fused']_fusionVars

\* An estimate of a detection lies in the direction in which the camera saw it: "Left
\* of image (small u) -> boat's port side (+y) -> positive bearing", as the other node
\* that reads the detections has it (geo_fusion_node.py, _bbox_bearing).
EstimateIsWhereSeen ==
    [][fused' # fused =>
        \A o \in fused' : o.label = 2 =>
            \E i \in DOMAIN detections : Project(o.at) = detections[i].column]_fusionVars
=============================================================================
