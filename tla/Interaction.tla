---------------------------- MODULE Interaction ----------------------------
(***************************************************************************)
(* From what a person says and does to a simulated behaviour: correlation  *)
(* (src/rci/multimodal/correlator.py), the meaning frame, the answer of    *)
(* the external character engine and its contract (src/rci/characters/),   *)
(* the behaviour planned from it and its joint goal (src/rci/behavior/).   *)
(* InteractionService and the HTTP route that calls it run them in turn.   *)
(*                                                                         *)
(* The host's clock counts up; the glove stamps its gestures with its own  *)
(* clock modulo Modulus.  Nothing synchronizes the two: the glove's is     *)
(* ahead of the host's by an offset that is anything and never changes.    *)
(* A text is "none", "blank" or "words"; confidences are in percent.       *)
(***************************************************************************)
EXTENDS Integers, FiniteSetsExt

CONSTANTS
  Window,     \* gesture_correlation_window_ms: 750 in the code
  Modulus,    \* of the glove's clock: 2^16 in the code
  MaxLag,     \* how old the timestamp of a request may be
  MaxTime,    \* bound on the host's clock
  Gestures,   \* [gesture, confidence, simulation] of the glove
  Voices,     \* [text, confidence, simulation] of a transcript
  Answers,    \* what the character engine may answer
  Profile     \* the reference robot by joint: [lower, upper, home] in degrees

ASSUME InteractionAssumption ==
  /\ {Window, Modulus, MaxLag, MaxTime} \subseteq Nat
  /\ Modulus # 0
  /\ \A part \in Gestures \cup Voices : part.confidence \in Int

VARIABLES
  clock,   \* the host's clock
  offset,  \* how far the glove's clock is ahead of it, modulo Modulus
  glove,   \* the last observation; taken is the host's time of it (history)
  turn     \* the one interaction under way: phase, request, frame, answer,
           \* behavior and goal

interaction == <<clock, offset, glove, turn>>

NoGesture == [gesture |-> "UNKNOWN", confidence |-> 0, simulation |-> FALSE,
              timestamp |-> 0, taken |-> 0]
NoVoice == [text |-> "none", confidence |-> 0, simulation |-> FALSE]
NoBehavior == [cue |-> "none", style |-> "none"]
NoAnswer == [cue |-> "none"]

---------------------------------------------------------------------------
(* Correlation.                                                            *)

\* Seeded fault: abs() forgotten.
SignedAge(at, timestamp) == at - timestamp

Age(at, timestamp) == IF at < timestamp THEN timestamp - at ELSE at - timestamp

Correlated(at, g) == g.gesture # "UNKNOWN" /\ Age(at, g.timestamp) <= Window

Said(r) == "words" \in {r.text, r.voice.text}
Spoken(r) == IF r.voice # NoVoice THEN r.voice.confidence ELSE IF Said(r) THEN 100 ELSE 0

Together(a, b) == Min({a, b})

\* correlate, for a request with a text or a voice or neither
Correlate(r) ==
  LET with == Correlated(r.at, r.gesture)
  IN [said |-> Said(r),
      mode |-> IF r.voice # NoVoice THEN "VOICE" ELSE IF Said(r) THEN "TEXT" ELSE "GESTURE",
      gesture |-> IF with THEN r.gesture.gesture ELSE "UNKNOWN",
      simulation |-> r.voice.simulation \/ (with /\ r.gesture.simulation),
      confidence |-> IF ~with THEN Spoken(r)
                     ELSE IF Said(r) THEN Together(Spoken(r), r.gesture.confidence)
                     ELSE r.gesture.confidence]

\* MeaningFrame.__post_init__
FrameValid(f) == (f.said \/ f.gesture # "UNKNOWN") /\ f.confidence \in 0 .. 100

---------------------------------------------------------------------------
(* The answer, and the behaviour made of it.                               *)

\* MotionIntent.validate_disposition and CharacterResponseV1
ContractValid(a) ==
  /\ a.fields /\ a.verified /\ a.persistence_committed
  /\ a.disposition = IF a.cue = "none" THEN "none" ELSE "optional"

\* AureliaCharacterClient.respond
Publishable(a) ==
  a.http_ok /\ a.safe_to_publish /\ a.response_present /\ ContractValid(a)

\* BehaviorPlanner.plan
Plan(a) ==
  IF a.disposition = "none" THEN NoBehavior ELSE [cue |-> a.cue, style |-> a.style]

\* SimulationBehaviorEmbodimentPlanner._OFFSETS and _STYLE_SCALE, in percent
Offsets ==
  [listen |-> <<0, 5, -5, 0>>, acknowledge |-> <<5, -5, 10, 0>>,
   present |-> <<20, -15, -15, 10>>, caution |-> <<-10, 10, 15, -5>>,
   celebrate |-> <<0, -25, -30, 25>>, think |-> <<-15, 15, 5, 0>>]
Joints == <<"base", "shoulder", "elbow", "gripper">>
StyleScale == [restrained |-> 50, standard |-> 75, expressive |-> 100]

\* plan: the target of each joint in hundredths of a degree
Goal(b) ==
  [j \in DOMAIN Joints |-> 100 * Profile[Joints[j]].home
                           + Offsets[b.cue][j] * StyleScale[b.style]]

---------------------------------------------------------------------------

Idle ==
  [phase |-> "idle", request |-> [at |-> 0], frame |-> NoVoice, answer |-> NoAnswer,
   behavior |-> NoBehavior, goal |-> <<>>]

InteractionInit ==
  clock = 0 /\ offset \in 0 .. Modulus - 1 /\ glove = NoGesture /\ turn = Idle

Tick == clock < MaxTime /\ clock' = clock + 1 /\ UNCHANGED <<offset, glove, turn>>

Glove(g) ==
  /\ glove' = [gesture |-> g.gesture, confidence |-> g.confidence,
               simulation |-> g.simulation, timestamp |-> (clock + offset) % Modulus,
               taken |-> clock]
  /\ UNCHANGED <<clock, offset, turn>>

\* InteractionService.interact up to its await; a frame that is not valid, or a
\* text beside a voice, is an error.
Begin(r) ==
  /\ turn.phase = "idle"
  /\ turn' = IF FrameValid(Correlate(r))
             THEN [turn EXCEPT !.phase = "asked", !.request = r, !.frame = Correlate(r)]
             ELSE [turn EXCEPT !.phase = "failed", !.request = r]
  /\ UNCHANGED <<clock, offset, glove>>

\* A caller of the service brings the glove's last observation, or none.
Interact(at, text, v, g) ==
  /\ text # "none" => v = NoVoice
  /\ Begin([at |-> at, text |-> text, voice |-> v, gesture |-> g])

\* The route takes the gesture from the request and stamps it itself; voice and
\* gesture are declared simulated, and a blank voice is refused.
Post(at, text, v, g) ==
  /\ text # "none" => v = NoVoice
  /\ v.text # "blank"
  /\ Begin([at |-> at, text |-> text,
            voice |-> [v EXCEPT !.simulation = (v # NoVoice)],
            gesture |-> [gesture |-> g.gesture, confidence |-> g.confidence,
                         simulation |-> TRUE, timestamp |-> at, taken |-> at]])

\* The engine answers, and the rest of interact runs; what is not publishable
\* becomes a CharacterEngineError.
Respond(a) ==
  /\ turn.phase = "asked"
  /\ turn' = IF ~Publishable(a) THEN [turn EXCEPT !.phase = "failed", !.answer = a]
             ELSE [turn EXCEPT !.phase = "done", !.answer = a, !.behavior = Plan(a),
                               !.goal = IF Plan(a) = NoBehavior THEN <<>> ELSE Goal(Plan(a))]
  /\ UNCHANGED <<clock, offset, glove>>

Return ==
  /\ turn.phase \in {"done", "failed"} /\ turn' = Idle
  /\ UNCHANGED <<clock, offset, glove>>

Timestamps == (IF clock < MaxLag THEN 0 ELSE clock - MaxLag) .. clock

InteractionNext ==
  \/ Tick
  \/ \E g \in Gestures : Glove(g)
  \/ \E at \in Timestamps, text \in {"none", "blank", "words"}, v \in Voices \cup {NoVoice} :
       \/ \E g \in {NoGesture, glove} : Interact(at, text, v, g)
       \/ \E g \in Gestures \cup {NoGesture} : Post(at, text, v, g)
  \/ \E a \in Answers : Respond(a)
  \/ Return

InteractionSpec == InteractionInit /\ [][InteractionNext]_interaction

---------------------------------------------------------------------------

\* How old the gesture of a request was, by the host's clock; one that was posted has
\* the stamp of the request.
AgeOfGesture(r) == r.at - r.gesture.taken

\* A gesture is combined with what was said, and makes a behaviour, only if it was
\* made about then, although the stamps of two clocks are compared by an absolute
\* difference and one of them wraps.  How near depends on the offset of the glove's
\* clock, which nothing bounds: the window is shifted back by it.  In step, gestures
\* are taken from within the window of the request; with a clock ahead by more than
\* the window the stale ones are taken and the fresh ones missed, but none that is
\* older than the window and the offset, whatever wraps.
RecentGesturesOnly ==
  turn.phase \in {"asked", "done"} /\ turn.frame.gesture # "UNKNOWN" =>
    LET age == AgeOfGesture(turn.request)
    IN /\ age <= Window + offset
       /\ age # 0 /\ Window + MaxLag + offset < Modulus => offset - Window <= age

\* A frame claims no more than what it is made of: it is at most as sure as its
\* least sure part, it is marked as simulated when a part is, and it has a part.
FrameIsHonest ==
  turn.phase = "asked" =>
    LET f == turn.frame
        r == turn.request
    IN /\ f.said \/ f.gesture # "UNKNOWN"
       /\ f.said /\ r.voice # NoVoice => f.confidence <= r.voice.confidence
       /\ f.gesture # "UNKNOWN" =>
            f.confidence <= r.gesture.confidence /\ (r.gesture.simulation => f.simulation)
       /\ f.said /\ r.voice.simulation => f.simulation

\* A behaviour comes only from an answer that its engine verified, stored and
\* released, and that left it open to be carried out.
BehaviorIsReleased ==
  turn.behavior # NoBehavior =>
    /\ turn.answer.verified /\ turn.answer.persistence_committed
    /\ turn.answer.safe_to_publish /\ turn.answer.disposition = "optional"
    /\ turn.phase = "done"

\* Every behaviour that can be asked for has a goal within the limits of the
\* reference robot, so that a released behaviour never fails for its goal.
GoalsAreReachable ==
  \A j \in DOMAIN turn.goal :
    turn.goal[j] \in 100 * Profile[Joints[j]].lower .. 100 * Profile[Joints[j]].upper

\* A behaviour has its ground in what was said and done just now, in an answer that
\* was released for it, and within the robot's reach.
BehaviorIsGrounded ==
  RecentGesturesOnly /\ FrameIsHonest /\ BehaviorIsReleased /\ GoalsAreReachable

===========================================================================
