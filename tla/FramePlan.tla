----------------------------- MODULE FramePlan -----------------------------
(***************************************************************************)
(* How many frames a video gets, from which moments, and which part of the *)
(* map: the integer arithmetic of services/renderer/compositor.py and      *)
(* scripts/generate_video.py (the same lines in both) and the viewing box  *)
(* of scripts/orbital_tracker.py.                                          *)
(*                                                                         *)
(* A plan is [frames, days, freq]: the frame count the renderer is asked   *)
(* for, end_date - start_date in days, and the time step.  Times are in    *)
(* seconds; the quotient time_range / total_steps, which Python rounds to  *)
(* a microsecond, is kept exact by multiplying before dividing.            *)
(***************************************************************************)
EXTENDS Integers

MaxFrames == 300                     \* cap of the orchestrator's requests

Freqs == {"1d", "1h", "10m", "1m", "other"}
Plans == [frames : Nat \ {0}, days : Nat, freq : Freqs]

AtMost(a, b)  == IF a <= b THEN a ELSE b
AtLeast(a, b) == IF a >= b THEN a ELSE b

(* frame_count of the request to a renderer *)
FrameCount(requested) == IF requested > MaxFrames THEN MaxFrames ELSE requested

(* freq_map.get(freq, timedelta(days=1)) *)
FreqDelta(p) == CASE p.freq = "1h"  -> 3600
                  [] p.freq = "10m" -> 600
                  [] p.freq = "1m"  -> 60
                  [] OTHER          -> 86400

(* end_date is moved to 23:59:59 *)
TimeRange(p)  == p.days * 86400 + 86399
DataSteps(p)  == AtLeast(1, TimeRange(p) \div FreqDelta(p) + 1)
TotalSteps(p) == AtMost(p.frames, DataSteps(p))

(* current_date - start_date before step k *)
StepTime(p, k) == IF TotalSteps(p) = DataSteps(p)
                  THEN k * FreqDelta(p)
                  ELSE (k * TimeRange(p)) \div AtLeast(1, TotalSteps(p))

(* while current_date <= end_date and step < total_steps *)
StepsOnByDate(p, k) == StepTime(p, k) <= TimeRange(p)   \* mutant: the date alone
StepsOn(p, k) == StepTime(p, k) <= TimeRange(p) /\ k < TotalSteps(p)

FramesPerStep(p) == AtLeast(1, p.frames \div AtLeast(1, TotalSteps(p)))
FramesAfter(p, k) == k * FramesPerStep(p)

ProgressLeft(p, k) == p.frames - FramesAfter(p, k)   \* mutant: counts down
Progress(p, k) == AtMost(p.frames, FramesAfter(p, k))

-----------------------------------------------------------------------------
(* compute_tracking_bbox in units of 1/10000 degree: clamp and shift.      *)
Swath   == 150000
LonEdge == 1800000
LatEdge == 900000

(* The interval of the given width around the centre c, shifted back to    *)
(* [-edge, edge] where it sticks out.                                      *)
Window(c, edge) ==
  LET low == c - Swath \div 2  high == c + Swath \div 2
  IN  IF high > edge THEN [min |-> edge - Swath, max |-> edge]
      ELSE IF low < -edge THEN [min |-> -edge, max |-> Swath - edge]
      ELSE [min |-> low, max |-> high]

TrackingBox(lat, lon) == [lon |-> Window(lon, LonEdge),
                          lat |-> Window(lat, LatEdge)]
=============================================================================
