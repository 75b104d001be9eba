------------------------- MODULE GestureClassifier -------------------------
(***************************************************************************)
(* MotionGestureClassifier (src/rci/gesture/classifier.py), which names    *)
(* the motion of a glove from its telemetry, one sample after the other,   *)
(* and remembers the last rolls in order to see a wave.  Angles and rates  *)
(* are in hundredths of a degree as in a sample, confidences in percent.   *)
(***************************************************************************)
EXTENDS Integers, Sequences, SequencesExt, FiniteSetsExt

CONSTANTS
  WaveWindow,   \* rolls remembered: 8 in the code, at least 4
  Telemetry,    \* telemetry: [roll, pitch, gx, gy, gz]
  MaxSamples    \* bound on the samples

ASSUME GestureAssumption ==
  /\ WaveWindow \in Nat /\ WaveWindow >= 4 /\ MaxSamples \in Nat
  /\ \A s \in Telemetry : {s.roll, s.pitch, s.gx, s.gy, s.gz} \subseteq Int

TILT == 1200
FLICK == 11000
ROTATION == 9000
HOLD_RATE == 800
SWING == 781    \* 0.65 times the tilt threshold, which as a float is above 7.8

VARIABLES
  rolls,    \* _roll_history
  seen,     \* the last observation
  trace     \* all samples (history)

gestures == <<rolls, seen, trace>>

Size(x) == IF x < 0 THEN -x ELSE x

\* Where in the history the hand was far to a side.
Swings(history) == {i \in DOMAIN history : Size(history[i]) >= SWING}

\* j is the swing after i, whatever rolls between them are no swings.
FollowedBy(history, i, j) ==
  j \in Swings(history) /\ i < j /\ \A k \in Swings(history) : ~(i < k /\ k < j)

\* Seeded fault: any change between swings counts, not only one of side.
TurnsOfAnyKind(history) ==
  {i \in Swings(history) :
     \E j \in DOMAIN history : FollowedBy(history, i, j) /\ history[i] # history[j]}

IsRight(roll) == roll > 0

Turns(history) ==
  {i \in Swings(history) :
     \E j \in DOMAIN history :
       FollowedBy(history, i, j) /\ IsRight(history[i]) # IsRight(history[j])}

\* _is_wave: a full window, at least four swings, and three changes of side
IsWave(history) ==
  /\ Len(history) = WaveWindow
  /\ Cardinality(Swings(history)) >= 4
  /\ Cardinality(Turns(history)) >= 3

Confidence(x, full) == Min({100, (100 * Size(x)) \div full})

Observation(gesture, confidence) == [gesture |-> gesture, confidence |-> confidence]

BySign(x, positive, negative) == IF x > 0 THEN positive ELSE negative

IsHeld(s) ==
  /\ s.gx * s.gx + s.gy * s.gy + s.gz * s.gz <= HOLD_RATE * HOLD_RATE
  /\ 2 * Size(s.pitch) >= TILT \/ 2 * Size(s.roll) >= TILT

\* The first description that fits
Named(s, history) ==
  IF IsWave(history) THEN Observation("WAVE", 90)
  ELSE IF Size(s.gz) >= ROTATION
  THEN Observation("ROTATION", Confidence(s.gz, 16200))
  ELSE IF Size(s.gy) >= FLICK
  THEN Observation(BySign(s.gy, "FLICK_RIGHT", "FLICK_LEFT"), Confidence(s.gy, 19800))
  ELSE IF Size(s.roll) >= TILT
  THEN Observation(BySign(s.roll, "TILT_RIGHT", "TILT_LEFT"), Confidence(s.roll, 2400))
  ELSE IF Size(s.pitch) >= TILT
  THEN Observation(BySign(s.pitch, "TILT_FORWARD", "TILT_BACKWARD"), Confidence(s.pitch, 2400))
  ELSE IF IsHeld(s) THEN Observation("HOLD", 70)
  ELSE Observation("UNKNOWN", 0)

\* deque(maxlen=wave_window)
Remember(roll) ==
  LET longer == Append(rolls, roll)
  IN IF Len(longer) > WaveWindow THEN Tail(longer) ELSE longer

Classify(s) ==
  /\ Len(trace) < MaxSamples
  /\ rolls' = Remember(s.roll)
  /\ seen' = Named(s, Remember(s.roll))
  /\ trace' = Append(trace, s)

GestureInit == rolls = <<>> /\ trace = <<>> /\ seen = Observation("UNKNOWN", 0)

GestureNext == \E s \in Telemetry : Classify(s)

GestureSpec == GestureInit /\ [][GestureNext]_gestures

---------------------------------------------------------------------------

\* A wave is seen exactly when, within the window that ends now, the hand was
\* far to one side, then to the other, and back and forth again.
WaveMeansSwinging ==
  LET last == Len(trace)
      window == (last - WaveWindow + 1) .. last
      Opposite(i, j) == IsRight(trace[i].roll) # IsRight(trace[j].roll)
      Far(i) == Size(trace[i].roll) >= SWING
  IN seen.gesture = "WAVE" <=>
       /\ last >= WaveWindow
       /\ \E a, b, c, d \in window :
            /\ a < b /\ b < c /\ c < d
            /\ \A i \in {a, b, c, d} : Far(i)
            /\ Opposite(a, b) /\ Opposite(b, c) /\ Opposite(c, d)

\* Whatever a sensor reports, up to the ends of its range, what is recognized
\* has a confidence that a meaning frame accepts, and never less than half.
ConfidenceIsUsable ==
  IF seen.gesture = "UNKNOWN" THEN seen.confidence = 0 ELSE seen.confidence \in 50 .. 100

\* What is recognized was done, and is as sure as a frame can take it to be.
GestureIsSound == WaveMeansSwinging /\ ConfidenceIsUsable

===========================================================================
