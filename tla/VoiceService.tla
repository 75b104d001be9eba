--------------------------- MODULE VoiceService ---------------------------
(***************************************************************************)
(* VoiceService (src/rci/voice/service.py): recognizing and speaking take  *)
(* turns, and what is being spoken may be interrupted.  A text is "blank"  *)
(* or "words".                                                             *)
(***************************************************************************)
EXTENDS Naturals

CONSTANTS
  MaxSpeeches   \* bound on the speeches begun

ASSUME VoiceAssumption == MaxSpeeches \in Nat

VARIABLES
  voice,   \* barge_in, state, last_transcript, active_speech
  plans    \* speeches begun, returned as completed, and as interrupted (history)

voices == <<voice, plans>>

Texts == {"blank", "words"}
NoSpeech == 0

VoiceInit ==
  /\ \E bargeIn \in BOOLEAN :
       voice = [barge_in |-> bargeIn, state |-> "IDLE", transcript |-> "none",
                speech |-> NoSpeech]
  /\ plans = [begun |-> 0, completed |-> {}, interrupted |-> {}]

\* Seeded fault: the speech that is cut off stays active.
InterruptedKept(v) == [v EXCEPT !.state = "IDLE"]

\* interrupt, which may be called in any state
Interrupted(v) == [v EXCEPT !.speech = NoSpeech, !.state = "IDLE"]

Ended == plans.interrupted \cup ({voice.speech} \ {NoSpeech})

Interrupt ==
  /\ voice' = Interrupted(voice)
  /\ plans' = [plans EXCEPT !.interrupted = Ended]

\* recognize_simulated: a speech is interrupted first, unless barge-in is off;
\* then the call raises and nothing changes.
Recognize(text, confident) ==
  /\ voice.state = "SPEAKING" => voice.barge_in
  /\ LET quiet == IF voice.state = "SPEAKING" THEN Interrupted(voice) ELSE voice
     IN voice' = IF text = "words" /\ confident
                 THEN [quiet EXCEPT !.state = "IDLE", !.transcript = text]
                 ELSE [quiet EXCEPT !.state = "FAILED"]
  /\ plans' = IF voice.state = "SPEAKING" THEN [plans EXCEPT !.interrupted = Ended]
              ELSE plans

\* speak
Speak(text) ==
  /\ voice.state \in {"IDLE", "LISTENING"}
  /\ plans.begun < MaxSpeeches
  /\ IF text = "words"
     THEN /\ voice' = [voice EXCEPT !.state = "SPEAKING", !.speech = plans.begun + 1]
          /\ plans' = [plans EXCEPT !.begun = @ + 1]
     ELSE /\ voice' = [voice EXCEPT !.state = "FAILED"]
          /\ UNCHANGED plans

\* complete_speech
Complete ==
  /\ voice.state = "SPEAKING" /\ voice.speech # NoSpeech
  /\ voice' = [voice EXCEPT !.speech = NoSpeech, !.state = "IDLE"]
  /\ plans' = [plans EXCEPT !.completed = @ \cup {voice.speech}]

VoiceNext ==
  \/ Interrupt
  \/ \E text \in Texts, confident \in BOOLEAN : Recognize(text, confident)
  \/ \E text \in Texts : Speak(text)
  \/ Complete

VoiceSpec == VoiceInit /\ [][VoiceNext]_voices

---------------------------------------------------------------------------

\* No speech is lost, ends twice or is forgotten while it is active, in whatever
\* order the calls come and whichever of them raise.
SpeechesAreAccounted ==
  /\ voice.state = "SPEAKING" <=> voice.speech # NoSpeech
  /\ plans.completed \cap plans.interrupted = {}
  /\ 1 .. plans.begun =
       plans.completed \cup plans.interrupted \cup ({voice.speech} \ {NoSpeech})
  /\ voice.speech \notin plans.completed \cup plans.interrupted

===========================================================================
