-------------------------- MODULE FramePlanProofs --------------------------
(***************************************************************************)
(* What the frame plan and the tracking box compute, for every request and *)
(* every position.                                                         *)
(***************************************************************************)
EXTENDS FramePlan, TLAPS

(* Facts on integer quotients, for positive divisors.                      *)
LEMMA Quotient ==
  ASSUME NEW a \in Nat, NEW b \in Nat \ {0}
  PROVE  /\ a \div b \in Nat
         /\ b * (a \div b) <= a
         /\ a < b * (a \div b) + b
PROOF BY Z3

LEMMA QuotientBound ==
  ASSUME NEW a \in Nat, NEW b \in Nat \ {0}, NEW n \in Nat, a <= b * n
  PROVE  a \div b <= n
<1> DEFINE q == a \div b
<1>1. q \in Nat /\ b * q <= a  BY Quotient
<1>2. SUFFICES ASSUME q >= n + 1 PROVE FALSE  BY <1>1
<1> HIDE DEF q
<1>3. b * q >= b * (n + 1)  BY <1>1, <1>2, Z3
<1>4. b * (n + 1) = b * n + b  BY Z3
<1> QED  BY <1>1, <1>3, <1>4

LEMMA Monotone ==
  ASSUME NEW a \in Nat, NEW b \in Nat, NEW c \in Nat, a <= b
  PROVE  a * c <= b * c
PROOF BY Z3

LEMMA ProductsAreNat ==
  ASSUME NEW a \in Nat, NEW b \in Nat
  PROVE  a * b \in Nat
PROOF BY Z3

-----------------------------------------------------------------------------
LEMMA PlanTypes ==
  ASSUME NEW p \in Plans
  PROVE  /\ FreqDelta(p) \in Nat \ {0}
         /\ TimeRange(p) \in Nat
         /\ DataSteps(p) = TimeRange(p) \div FreqDelta(p) + 1
         /\ DataSteps(p) \in Nat \ {0}
<1>1. FreqDelta(p) \in Nat \ {0}  BY DEF Plans, Freqs, FreqDelta
<1>2. TimeRange(p) \in Nat  BY DEF Plans, TimeRange
<1>3. TimeRange(p) \div FreqDelta(p) \in Nat  BY <1>1, <1>2, Quotient
<1> QED  BY <1>1, <1>2, <1>3 DEF DataSteps, AtLeast

(* There is at least one step, and no more steps than frames or than there *)
(* are moments with data (compositor.py:224-225).                          *)
THEOREM StepsAreBounded ==
  ASSUME NEW p \in Plans
  PROVE  TotalSteps(p) \in 1..p.frames /\ TotalSteps(p) <= DataSteps(p)
PROOF BY PlanTypes DEF TotalSteps, AtMost, Plans

(* The date condition of the loop never stops it short: exactly the        *)
(* planned steps run, at whichever frequency, daily or spread over the     *)
(* range (compositor.py:226, 274).                                         *)
THEOREM EveryStepRuns ==
  ASSUME NEW p \in Plans, NEW k \in Nat
  PROVE  StepsOn(p, k) <=> k < TotalSteps(p)
<1> DEFINE R == TimeRange(p)  F == FreqDelta(p)  T == TotalSteps(p)
<1>1. /\ F \in Nat \ {0} /\ R \in Nat
      /\ DataSteps(p) = R \div F + 1
  BY PlanTypes
<1>2. T \in Nat \ {0}  BY StepsAreBounded DEF Plans
<1>3. SUFFICES ASSUME k < T PROVE StepTime(p, k) <= R
  BY DEF StepsOn
<1>4. CASE T = DataSteps(p)
  <2> DEFINE q == R \div F
  <2>1. q \in Nat /\ F * q <= R  BY <1>1, Quotient
  <2>2. k <= q  BY <1>1, <1>3, <1>4, <2>1
  <2>3. k * F <= q * F  BY <1>1, <2>1, <2>2, Monotone
  <2>4. q * F = F * q  BY <1>1, <2>1, Z3
  <2>5. k * F \in Nat /\ F * q \in Nat  BY <1>1, <2>1, ProductsAreNat
  <2>6. k * F <= R
    <3> HIDE DEF F, R, q
    <3> QED  BY <1>1, <2>1, <2>3, <2>4, <2>5
  <2> QED  BY <1>4, <2>6 DEF StepTime
<1>5. CASE T # DataSteps(p)
  <2>1. k * R <= T * R  BY <1>1, <1>2, <1>3, Monotone
  <2>2. k * R \in Nat  BY <1>1, ProductsAreNat
  <2>3. (k * R) \div T <= R  BY <1>1, <1>2, <2>1, <2>2, QuotientBound
  <2>4. AtLeast(1, T) = T  BY <1>2 DEF AtLeast
  <2> QED  BY <1>5, <2>3, <2>4 DEF StepTime
<1> QED  BY <1>4, <1>5

(* The frames of one step: the quotient is exact down to a remainder       *)
(* smaller than the number of steps.                                       *)
LEMMA PerStep ==
  ASSUME NEW p \in Plans
  PROVE  /\ FramesPerStep(p) \in Nat \ {0}
         /\ TotalSteps(p) * FramesPerStep(p) <= p.frames
         /\ p.frames < TotalSteps(p) * FramesPerStep(p) + TotalSteps(p)
<1> DEFINE T == TotalSteps(p)  q == p.frames \div T
<1>1. T \in Nat \ {0} /\ T <= p.frames /\ p.frames \in Nat
  BY StepsAreBounded DEF Plans
<1>2. q \in Nat /\ T * q <= p.frames /\ p.frames < T * q + T
  BY <1>1, Quotient
<1>3. q # 0
  <2>1. SUFFICES ASSUME q = 0 PROVE FALSE  OBVIOUS
  <2>2. T * 0 = 0  BY <1>1, Z3
  <2> HIDE DEF T, q
  <2> QED  BY <1>1, <1>2, <2>1, <2>2
<1>4. FramesPerStep(p) = q
  BY <1>1, <1>2, <1>3 DEF FramesPerStep, AtLeast
<1> QED  BY <1>2, <1>3, <1>4

(* The video never has more frames than were asked for, and what it lacks  *)
(* is less than one frame per step (compositor.py:248, generate_video.py:  *)
(* 245-246, whose comment promises the exact number).                      *)
THEOREM FramesWithinRequest ==
  ASSUME NEW p \in Plans
  PROVE  LET written == FramesAfter(p, TotalSteps(p))
         IN  written <= p.frames /\ p.frames - written < TotalSteps(p)
<1>1. TotalSteps(p) \in Nat /\ p.frames \in Nat  BY StepsAreBounded DEF Plans
<1> DEFINE w == TotalSteps(p) * FramesPerStep(p)
<1>2. w \in Nat /\ w <= p.frames /\ p.frames < w + TotalSteps(p)
  BY <1>1, PerStep, ProductsAreNat
<1> HIDE DEF w
<1>3. p.frames - w < TotalSteps(p)  BY <1>1, <1>2
<1> QED  BY <1>2, <1>3 DEF FramesAfter, w

(* Reported progress is the number of frames written so far: the min() of  *)
(* compositor.py:363 never bites, progress grows with every step, and it   *)
(* never exceeds the total it is reported with.                            *)
THEOREM ProgressIsFramesWritten ==
  ASSUME NEW p \in Plans, NEW k \in 0..TotalSteps(p)
  PROVE  /\ Progress(p, k) = FramesAfter(p, k)
         /\ Progress(p, k) <= p.frames
         /\ k > 0 => Progress(p, k - 1) < Progress(p, k)
<1> DEFINE T == TotalSteps(p)  f == FramesPerStep(p)
<1>1. T \in Nat /\ k \in Nat /\ k <= T /\ p.frames \in Nat
  BY StepsAreBounded DEF Plans
<1>2. f \in Nat \ {0} /\ T * f \in Nat /\ T * f <= p.frames
  BY <1>1, PerStep, ProductsAreNat
<1>3. \A i \in Nat : i <= T => i * f \in Nat /\ i * f <= p.frames
  <2>1. SUFFICES ASSUME NEW i \in Nat, i <= T
                 PROVE  i * f \in Nat /\ i * f <= p.frames
    OBVIOUS
  <2>2. i * f \in Nat /\ i * f <= T * f  BY <1>1, <1>2, <2>1, Monotone, ProductsAreNat
  <2> HIDE DEF T, f
  <2> QED  BY <1>1, <1>2, <2>2
<1>4. \A i \in Nat : i <= T => Progress(p, i) = i * f
  BY <1>1, <1>3 DEF Progress, FramesAfter, AtMost
<1>5. ASSUME k > 0 PROVE (k - 1) * f < k * f
  <2>1. (k - 1) * f = k * f - f  BY <1>1, <1>2, Z3
  <2>2. k * f \in Nat  BY <1>1, <1>3
  <2> HIDE DEF f
  <2> QED  BY <1>2, <2>1, <2>2
<1>6. ASSUME k > 0 PROVE Progress(p, k - 1) < Progress(p, k)
  BY <1>1, <1>4, <1>5, <1>6
<1> QED  BY <1>1, <1>3, <1>4, <1>6 DEF FramesAfter

-----------------------------------------------------------------------------
Inside(w, c, edge) == /\ -edge <= w.min /\ w.max <= edge
                      /\ w.max - w.min = Swath
                      /\ w.min <= c /\ c <= w.max

LEMMA EdgesFit ==
  /\ LatEdge \in Nat /\ Swath <= LatEdge
  /\ LonEdge \in Nat /\ Swath <= LonEdge
PROOF BY SMT DEF LatEdge, LonEdge, Swath

LEMMA WindowFits ==
  ASSUME NEW edge \in Nat, Swath <= edge, NEW c \in (-edge)..edge
  PROVE  Inside(Window(c, edge), c, edge)
<1>1. Swath = 150000 /\ Swath \div 2 = 75000  BY DEF Swath
<1>2. CASE c + 75000 > edge
  <2>1. Window(c, edge) = [min |-> edge - 150000, max |-> edge]
    BY <1>1, <1>2 DEF Window
  <2> QED  BY <1>1, <1>2, <2>1 DEF Inside
<1>3. CASE c + 75000 <= edge /\ c - 75000 < -edge
  <2>1. Window(c, edge) = [min |-> -edge, max |-> 150000 - edge]
    BY <1>1, <1>3 DEF Window
  <2> QED  BY <1>1, <1>3, <2>1 DEF Inside
<1>4. CASE c + 75000 <= edge /\ c - 75000 >= -edge
  <2>1. Window(c, edge) = [min |-> c - 75000, max |-> c + 75000]
    BY <1>1, <1>4 DEF Window
  <2> QED  BY <1>1, <1>4, <2>1 DEF Inside
<1> QED  BY <1>2, <1>3, <1>4

(* Wherever the satellite is, the viewing box lies on the map, keeps its   *)
(* width and height, and contains the point below the satellite            *)
(* (orbital_tracker.py:152-179).                                           *)
THEOREM BoxOnMap ==
  ASSUME NEW lat \in (-LatEdge)..LatEdge, NEW lon \in (-LonEdge)..LonEdge
  PROVE  /\ Inside(TrackingBox(lat, lon).lon, lon, LonEdge)
         /\ Inside(TrackingBox(lat, lon).lat, lat, LatEdge)
<1>1. /\ TrackingBox(lat, lon).lon = Window(lon, LonEdge)
      /\ TrackingBox(lat, lon).lat = Window(lat, LatEdge)
  BY DEF TrackingBox
<1> QED  BY <1>1, EdgesFit, WindowFits
=============================================================================
