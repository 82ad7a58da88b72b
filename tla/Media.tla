--------------------------------- MODULE Media ---------------------------------
(***************************************************************************)
(* Speech, transcription and images (adapters/media.py and the media       *)
(* builders and normalisers of base.py, openai.py, gemini.py, mimo.py):    *)
(* what is sent, what the answer is turned into, what is billed for it.    *)
(*                                                                         *)
(* A call is refused when it cannot be built, an answer when nothing can   *)
(* be made of it: the operators return a sequence, empty for a refusal.    *)
(***************************************************************************)
EXTENDS Integers, Sequences

Refused == <<>>
TextFormats == {"text", "srt", "vtt"}

\* What each protocol has a builder for: MiMo draws with OpenAI's, should a channel
\* claim so; anthropic has none (BaseAdapter._unsupported).
Speaks == {"openai", "gemini", "mimo"}
Draws  == {"openai", "gemini", "mimo"}

\* Some of each protocol's voices and aliases.  An empty name finds the first voice,
\* so Gemini's default_voice ("Kore") is never reached.
Voices ==
    [openai |-> {}, gemini |-> {"Zephyr", "Kore", "Orus"},
     mimo |-> {"mimo_default", "Mia", "Milo"}]
FirstVoice == [openai |-> "", gemini |-> "Zephyr", mimo |-> "mimo_default"]
Aliases == [openai |-> {}, gemini |-> {"alloy", "sage"}, mimo |-> {"alloy", "sage", "cedar"}]
AliasOf == [gemini |-> [alloy |-> "Kore", sage |-> "Orus"],
            mimo   |-> [alloy |-> "mimo_default", sage |-> "Mia", cedar |-> "Milo"]]

TranslateVoice(p, voice) ==
    CASE Voices[p] = {} \/ voice \in Voices[p] -> <<voice>>
      [] voice \in Aliases[p]                  -> <<AliasOf[p][voice]>>
      [] voice = "" /\ Voices[p] # {}          -> <<FirstVoice[p]>>
      [] OTHER                                 -> Refused
-----------------------------------------------------------------------------
(* A request is [kind, voice, text, model, format, audio, tenths, rate, n]; *)
(* text is "words", or "blank" when there is nothing but white space; the   *)
(* audio lasts so many tenths of a second, an MP3 at so many kbit/s.        *)

SpeechOpenAI(q) == <<[voice |-> IF q.voice = "" THEN "alloy" ELSE q.voice]>>

\* (mutant) the voice is looked up only once the answer is there
SpeechGeminiLate(q) ==
    IF q.text = "blank" THEN Refused ELSE <<[voice |-> q.voice]>>

SpeechGemini(q) ==
    LET voice == TranslateVoice("gemini", q.voice) IN
    IF q.text = "blank" \/ voice = Refused THEN Refused ELSE <<[voice |-> voice[1]]>>

\* A model that clones voices has no audio to clone from.
SpeechMiMo(q) ==
    LET voice == TranslateVoice("mimo", q.voice) IN
    IF voice = Refused \/ q.text = "blank" \/ q.model = "clone" THEN Refused
    ELSE <<[voice |-> voice[1]]>>

BuildMediaCall(p, q) ==
    CASE q.kind = "speech" /\ p = "openai" -> SpeechOpenAI(q)
      [] q.kind = "speech" /\ p = "gemini" -> SpeechGemini(q)
      [] q.kind = "speech" /\ p = "mimo"   -> SpeechMiMo(q)
      [] q.kind = "transcription" /\ p \in Speaks ->
            IF q.audio = "none" /\ p # "openai" THEN Refused ELSE <<[voice |-> ""]>>
      [] q.kind = "images" /\ p \in Draws ->
            IF q.text = "blank" /\ p = "gemini" THEN Refused ELSE <<[voice |-> ""]>>
      [] OTHER -> Refused
-----------------------------------------------------------------------------
(* What is billed. *)

\* (mutant) a second that is not full is not billed
WholeSeconds(tenths) == tenths \div 10

BillingSeconds(tenths) == (tenths + 9) \div 10

\* The length of a WAV is in its header.  That of an MP3 is guessed from its size,
\* as though it had 128 kbit/s.  A WAV that cannot be read ("broken") counts as 0,
\* and so does any other container.
AudioTenths(q) ==
    CASE q.audio = "wav" -> q.tenths
      [] q.audio = "mp3" -> (q.tenths * q.rate) \div 128
      [] OTHER           -> 0

\* The length of the text as given, not of what is left once it is stripped.
Characters(q) == q.length

\* ImageRequest.from_body: at least one image and at most ten.
ImageCount(n) == IF n < 1 THEN 1 ELSE IF n > 10 THEN 10 ELSE n
-----------------------------------------------------------------------------
(* An answer is [json, audio, images]: the body is JSON or not, audio is the *)
(* container that it holds or "none", images is how many images are in it.   *)

Result(body, units) == <<[body |-> body, units |-> units]>>

\* The bytes are the audio, whatever they are.
NormalizeSpeechOpenAI(q, answer) == Result(answer.audio, Characters(q))

\* Bare PCM gets a WAV header.
NormalizeSpeechGemini(q, answer) ==
    IF ~answer.json \/ answer.audio = "none" \/ TranslateVoice("gemini", q.voice) = Refused
    THEN Refused
    ELSE Result(IF answer.audio = "pcm" THEN "wav" ELSE answer.audio, Characters(q))

NormalizeSpeechMiMo(q, answer) ==
    IF ~answer.json \/ answer.audio = "none" \/ TranslateVoice("mimo", q.voice) = Refused
    THEN Refused
    ELSE Result(answer.audio, Characters(q))

\* The answer is decoded as JSON first, a transcript in plain text included.
NormalizeTranscription(q, answer) ==
    IF ~answer.json THEN Refused
    ELSE Result(IF q.format \in TextFormats THEN "text" ELSE "json",
                BillingSeconds(AudioTenths(q)))

NormalizeImagesOpenAI(q, answer) ==
    IF ~answer.json THEN Refused
    ELSE Result("json", IF answer.images > 0 THEN answer.images ELSE ImageCount(q.n))

NormalizeImagesGemini(q, answer) ==
    IF ~answer.json \/ answer.images = 0 THEN Refused ELSE Result("json", answer.images)

NormalizeMedia(p, q, answer) ==
    CASE q.kind = "speech" /\ p = "openai" -> NormalizeSpeechOpenAI(q, answer)
      [] q.kind = "speech" /\ p = "gemini" -> NormalizeSpeechGemini(q, answer)
      [] q.kind = "speech" /\ p = "mimo"   -> NormalizeSpeechMiMo(q, answer)
      [] q.kind = "transcription"          -> NormalizeTranscription(q, answer)
      [] q.kind = "images" /\ p \in {"openai", "mimo"} -> NormalizeImagesOpenAI(q, answer)
      [] q.kind = "images" /\ p = "gemini" -> NormalizeImagesGemini(q, answer)
=============================================================================
