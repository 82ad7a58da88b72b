----------------------------- MODULE PassageProofs -----------------------------
(***************************************************************************)
(* Proofs about what Exchange receives, in chunks and whole, and that what *)
(* is proved of the limits, of the tables and of the exchange holds of     *)
(* Passage, which puts them together.                                      *)
(***************************************************************************)
EXTENDS Passage, AccessProofs, RequestProofs

-----------------------------------------------------------------------------
(***************************************************************************)
(* Media.  What is known of an exchange is what was built of its request   *)
(* and what was read from its answer; the call was not refused.            *)
(***************************************************************************)
MediaSent(p, q) ==
    [kind |-> q.kind, provider |-> p, request |-> q, call |-> BuildMediaCall(p, q)]

MediaDone(p, q, a) ==
    [kind |-> q.kind, provider |-> p, request |-> q, call |-> BuildMediaCall(p, q),
     answer |-> a, result |-> NormalizeMedia(p, q, a)]

MediaInv ==
    /\ phase = "media" =>
          \E p \in Providers, q \in MediaRequests :
             media = MediaSent(p, q) /\ BuildMediaCall(p, q) # Refused
    /\ phase = "answered" =>
          \E p \in Providers, q \in MediaRequests, a \in MediaAnswers :
             media = MediaDone(p, q, a) /\ BuildMediaCall(p, q) # Refused

LEMMA MediaRecords ==
    ASSUME NEW p, NEW q, NEW a
    PROVE  /\ LET m == MediaSent(p, q)
              IN  /\ m.kind = q.kind /\ m.provider = p /\ m.request = q
                  /\ m.call = BuildMediaCall(p, q)
           /\ LET m == MediaDone(p, q, a)
              IN  /\ m.kind = q.kind /\ m.provider = p /\ m.request = q
                  /\ m.call = BuildMediaCall(p, q) /\ m.answer = a
                  /\ m.result = NormalizeMedia(p, q, a)
    BY DEF MediaSent, MediaDone

\* No other step touches the exchange about media, or enters its phases.
LEMMA OtherSteps ==
    ASSUME [Next]_vars
    PROVE  \/ \E p \in Providers, q \in MediaRequests : MediaAsk(p, q)
           \/ \E a \in MediaAnswers : MediaAnswered(a)
           \/ media' = media /\ (phase' = phase \/ phase' \notin {"media", "answered"})
    <1>1. ASSUME Compose
          PROVE  media' = media /\ (phase' = phase \/ phase' \notin {"media", "answered"})
        BY <1>1 DEF Compose, SystemSays, UserWrites, AssistantSaid, ToolAnswers, Write, Ask
    <1>2. ASSUME AnthropicStream
          PROVE  media' = media /\ (phase' = phase \/ phase' \notin {"media", "answered"})
        BY <1>2 DEF AnthropicStream, MessageStart, BlockStart, BlockDelta, MessageDelta,
               AnthropicEnds, AnthropicSends
    <1>3. ASSUME GeminiStream
          PROVE  media' = media /\ (phase' = phase \/ phase' \notin {"media", "answered"})
        BY <1>3 DEF GeminiStream, GeminiSends, GeminiEnds
    <1>4. ASSUME OpenAIStream
          PROVE  media' = media /\ (phase' = phase \/ phase' \notin {"media", "answered"})
        BY <1>4 DEF OpenAIStream, OpenAISends
    <1>5. CASE Accept \/ StreamError \/ \E p \in Providers : Try(p)
        BY <1>5 DEF Accept, StreamError, Try
    <1>6. CASE UNCHANGED vars
        BY <1>6 DEF vars
    <1> QED
        BY <1>1, <1>2, <1>3, <1>4, <1>5, <1>6 DEF Next

LEMMA MediaStep ==
    ASSUME MediaInv, [Next]_vars
    PROVE  MediaInv'
    <1>1. ASSUME NEW p \in Providers, NEW q \in MediaRequests, MediaAsk(p, q)
          PROVE  MediaInv'
        <2>1. /\ media' = MediaSent(p, q)
              /\ phase' = IF BuildMediaCall(p, q) = Refused THEN "refused" ELSE "media"
            BY <1>1 DEF MediaAsk, MediaSent
        <2> QED
            BY <2>1 DEF MediaInv
    <1>2. ASSUME NEW a \in MediaAnswers, MediaAnswered(a)
          PROVE  MediaInv'
        <2>1. PICK p \in Providers, q \in MediaRequests :
                 media = MediaSent(p, q) /\ BuildMediaCall(p, q) # Refused
            BY <1>2 DEF MediaAnswered, MediaInv
        <2>2. /\ media.kind = q.kind /\ media.provider = p /\ media.request = q
              /\ media.call = BuildMediaCall(p, q)
            BY <2>1, MediaRecords
        <2>3. /\ phase' = "answered"
              /\ media' = [kind |-> media.kind, provider |-> media.provider,
                           request |-> media.request, call |-> media.call, answer |-> a,
                           result |-> NormalizeMedia(media.provider, media.request, a)]
            BY <1>2 DEF MediaAnswered
        <2>4. media' = MediaDone(p, q, a)
            BY <2>2, <2>3 DEF MediaDone
        <2> QED
            BY <2>1, <2>3, <2>4 DEF MediaInv
    <1>3. CASE media' = media /\ (phase' = phase \/ phase' \notin {"media", "answered"})
        BY <1>3 DEF MediaInv
    <1> QED
        BY <1>1, <1>2, <1>3, OtherSteps

LEMMA MediaCorrect == Spec => []MediaInv
    <1>1. Init => MediaInv
        BY DEF Init, MediaInv
    <1> QED
        BY <1>1, MediaStep, PTL DEF Spec

\* A voice that is found is one of the upstream's.
LEMMA VoiceFound ==
    ASSUME NEW p \in {"gemini", "mimo"}, NEW voice, TranslateVoice(p, voice) # Refused
    PROVE  TranslateVoice(p, voice)[1] \in Voices[p]
    <1>1. CASE p = "gemini"
        <2>1. /\ Voices[p] = {"Zephyr", "Kore", "Orus"}
              /\ Aliases[p] = {"alloy", "sage"}
              /\ FirstVoice[p] = "Zephyr"
            BY <1>1 DEF Voices, Aliases, FirstVoice
        <2>2. /\ AliasOf[p].alloy = "Kore"
              /\ AliasOf[p].sage = "Orus"
            BY <1>1 DEF AliasOf
        <2>3. CASE voice \in Voices[p]
            <3>1. TranslateVoice(p, voice) = <<voice>>
                BY <2>1, <2>3 DEF TranslateVoice
            <3> QED
                BY <2>3, <3>1
        <2>4. CASE voice \in Aliases[p] /\ voice \notin Voices[p]
            <3>1. TranslateVoice(p, voice) = <<AliasOf[p][voice]>>
                BY <2>1, <2>4 DEF TranslateVoice
            <3>2. AliasOf[p][voice] \in Voices[p]
                BY <2>1, <2>2, <2>4
            <3> QED
                BY <3>1, <3>2
        <2>5. CASE voice = ""
            <3>1. TranslateVoice(p, voice) = <<FirstVoice[p]>>
                BY <2>1, <2>5 DEF TranslateVoice
            <3> QED
                BY <2>1, <3>1
        <2>6. CASE voice \notin Aliases[p] \cup Voices[p] /\ voice # ""
            BY <2>1, <2>6 DEF TranslateVoice, Refused
        <2> QED
            BY <2>3, <2>4, <2>5, <2>6
    <1>2. CASE p = "mimo"
        <2>1. /\ Voices[p] = {"mimo_default", "Mia", "Milo"}
              /\ Aliases[p] = {"alloy", "sage", "cedar"}
              /\ FirstVoice[p] = "mimo_default"
            BY <1>2 DEF Voices, Aliases, FirstVoice
        <2>2. /\ AliasOf[p].alloy = "mimo_default"
              /\ AliasOf[p].sage = "Mia"
              /\ AliasOf[p].cedar = "Milo"
            BY <1>2 DEF AliasOf
        <2>3. CASE voice \in Voices[p]
            <3>1. TranslateVoice(p, voice) = <<voice>>
                BY <2>1, <2>3 DEF TranslateVoice
            <3> QED
                BY <2>3, <3>1
        <2>4. CASE voice \in Aliases[p] /\ voice \notin Voices[p]
            <3>1. TranslateVoice(p, voice) = <<AliasOf[p][voice]>>
                BY <2>1, <2>4 DEF TranslateVoice
            <3>2. AliasOf[p][voice] \in Voices[p]
                BY <2>1, <2>2, <2>4
            <3> QED
                BY <3>1, <3>2
        <2>5. CASE voice = ""
            <3>1. TranslateVoice(p, voice) = <<FirstVoice[p]>>
                BY <2>1, <2>5 DEF TranslateVoice
            <3> QED
                BY <2>1, <3>1
        <2>6. CASE voice \notin Aliases[p] \cup Voices[p] /\ voice # ""
            BY <2>1, <2>6 DEF TranslateVoice, Refused
        <2> QED
            BY <2>3, <2>4, <2>5, <2>6
    <1> QED
        BY <1>1, <1>2

LEMMA SpeechBuilt ==
    ASSUME NEW p \in Providers, NEW q, q.kind = "speech", BuildMediaCall(p, q) # Refused
    PROVE  /\ p \in {"openai", "gemini", "mimo"}
           /\ p # "openai" => /\ TranslateVoice(p, q.voice) # Refused
                              /\ BuildMediaCall(p, q)[1].voice \in Voices[p]
    <1>1. p \in {"openai", "gemini", "mimo"}
        BY DEF BuildMediaCall, Providers
    <1>2. CASE p = "gemini"
        <2>1. BuildMediaCall(p, q) = SpeechGemini(q)
            BY <1>2 DEF BuildMediaCall
        <2>2. TranslateVoice("gemini", q.voice) # Refused
            BY <2>1 DEF SpeechGemini
        <2>3. BuildMediaCall(p, q) = <<[voice |-> TranslateVoice("gemini", q.voice)[1]]>>
            BY <2>1 DEF SpeechGemini
        <2>4. BuildMediaCall(p, q)[1].voice = TranslateVoice("gemini", q.voice)[1]
            BY <2>3
        <2> QED
            BY <1>2, <2>2, <2>4, VoiceFound
    <1>3. CASE p = "mimo"
        <2>1. BuildMediaCall(p, q) = SpeechMiMo(q)
            BY <1>3 DEF BuildMediaCall
        <2>2. TranslateVoice("mimo", q.voice) # Refused
            BY <2>1 DEF SpeechMiMo
        <2>3. BuildMediaCall(p, q) = <<[voice |-> TranslateVoice("mimo", q.voice)[1]]>>
            BY <2>1 DEF SpeechMiMo
        <2>4. BuildMediaCall(p, q)[1].voice = TranslateVoice("mimo", q.voice)[1]
            BY <2>3
        <2> QED
            BY <1>3, <2>2, <2>4, VoiceFound
    <1> QED
        BY <1>1, <1>2, <1>3

LEMMA PicturesBuilt ==
    ASSUME NEW p \in Providers, NEW q, q.kind = "images", BuildMediaCall(p, q) # Refused
    PROVE  p \in {"openai", "mimo", "gemini"}
    BY DEF BuildMediaCall, Providers, Draws

LEMMA ResultOf ==
    ASSUME NEW body, NEW units
    PROVE  Result(body, units) # Refused /\ Result(body, units)[1].units = units
    BY DEF Result, Refused

\* A call that was sent and answered as promised is refused for plain text only.
LEMMA NoneLate ==
    ASSUME NEW p \in Providers, NEW q \in MediaRequests, NEW a \in MediaAnswers,
           BuildMediaCall(p, q) # Refused, Promised(p, q, a)
    PROVE  NormalizeMedia(p, q, a) = Refused <=> PlainText(p, q, a)
    <1>1. q.kind \in {"speech", "transcription", "images"} /\ a.json \in BOOLEAN /\ a.images \in Nat
        BY ExchangeAssumption
    <1> USE DEF PlainText
    <1>2. CASE q.kind = "speech"
        <2>1. /\ p \in {"openai", "gemini", "mimo"}
              /\ p # "openai" => TranslateVoice(p, q.voice) # Refused
            BY <1>2, SpeechBuilt
        <2>2. a.audio # "none" /\ (p # "openai" => a.json)
            BY <1>2 DEF Promised
        <2>3. CASE p = "openai"
            <3>1. NormalizeMedia(p, q, a) = NormalizeSpeechOpenAI(q, a)
                BY <1>2, <2>3 DEF NormalizeMedia
            <3> QED
                BY <1>2, <3>1, ResultOf DEF NormalizeSpeechOpenAI
        <2>4. CASE p = "gemini"
            <3>1. NormalizeMedia(p, q, a) = NormalizeSpeechGemini(q, a)
                BY <1>2, <2>4 DEF NormalizeMedia
            <3> QED
                BY <1>2, <2>1, <2>2, <2>4, <3>1, ResultOf DEF NormalizeSpeechGemini
        <2>5. CASE p = "mimo"
            <3>1. NormalizeMedia(p, q, a) = NormalizeSpeechMiMo(q, a)
                BY <1>2, <2>5 DEF NormalizeMedia
            <3> QED
                BY <1>2, <2>1, <2>2, <2>5, <3>1, ResultOf DEF NormalizeSpeechMiMo
        <2> QED
            BY <2>1, <2>3, <2>4, <2>5
    <1>3. CASE q.kind = "transcription"
        <2>1. NormalizeMedia(p, q, a) = NormalizeTranscription(q, a)
            BY <1>3 DEF NormalizeMedia
        <2>2. CASE a.json
            BY <2>1, <2>2, ResultOf DEF NormalizeTranscription
        <2>3. CASE ~a.json
            <3>1. PlainText(p, q, a)
                BY <1>3, <2>3 DEF Promised
            <3> QED
                BY <2>1, <2>3, <3>1 DEF NormalizeTranscription
        <2> QED
            BY <2>2, <2>3
    <1>4. CASE q.kind = "images"
        <2>1. p \in {"openai", "mimo", "gemini"}
            BY <1>4, PicturesBuilt
        <2>2. a.json /\ a.images > 0
            BY <1>4 DEF Promised
        <2>3. CASE p \in {"openai", "mimo"}
            <3>1. NormalizeMedia(p, q, a) = NormalizeImagesOpenAI(q, a)
                BY <1>4, <2>3 DEF NormalizeMedia
            <3> QED
                BY <1>4, <2>2, <3>1, ResultOf DEF NormalizeImagesOpenAI
        <2>4. CASE p = "gemini"
            <3>1. NormalizeMedia(p, q, a) = NormalizeImagesGemini(q, a)
                BY <1>4, <2>4 DEF NormalizeMedia
            <3> QED
                BY <1>1, <1>4, <2>2, <3>1, ResultOf DEF NormalizeImagesGemini
        <2> QED
            BY <2>1, <2>3, <2>4
    <1> QED
        BY <1>1, <1>2, <1>3, <1>4

(***************************************************************************)
(* Of the answers as promised to a media call that was sent, those and     *)
(* only those are refused that are a transcript in plain text, and a voice *)
(* that was sent is one that the upstream has (build_speech_call,          *)
(* normalize_*, _decode_payload).                                          *)
(***************************************************************************)
THEOREM OnlyTextRefusedLate == Spec => []LateRefusals
    <1>1. MediaInv => LateRefusals
        <2> SUFFICES ASSUME MediaInv PROVE LateRefusals
            OBVIOUS
        <2>1. phase = "answered" /\ Promised(media.provider, media.request, media.answer) =>
                 (media.result = Refused
                     <=> PlainText(media.provider, media.request, media.answer))
            <3> SUFFICES ASSUME phase = "answered",
                                Promised(media.provider, media.request, media.answer)
                         PROVE  media.result = Refused
                                   <=> PlainText(media.provider, media.request, media.answer)
                OBVIOUS
            <3>1. PICK p \in Providers, q \in MediaRequests, a \in MediaAnswers :
                     media = MediaDone(p, q, a) /\ BuildMediaCall(p, q) # Refused
                BY DEF MediaInv
            <3>2. /\ media.provider = p /\ media.request = q /\ media.answer = a
                  /\ media.result = NormalizeMedia(p, q, a)
                BY <3>1, MediaRecords
            <3> QED
                BY <3>1, <3>2, NoneLate
        <2>2. phase = "media" /\ media.kind = "speech" /\ Voices[media.provider] # {}
                 => media.call[1].voice \in Voices[media.provider]
            <3> SUFFICES ASSUME phase = "media", media.kind = "speech",
                                Voices[media.provider] # {}
                         PROVE  media.call[1].voice \in Voices[media.provider]
                OBVIOUS
            <3>1. PICK p \in Providers, q \in MediaRequests :
                     media = MediaSent(p, q) /\ BuildMediaCall(p, q) # Refused
                BY DEF MediaInv
            <3>2. /\ media.kind = q.kind /\ media.provider = p
                  /\ media.call = BuildMediaCall(p, q)
                BY <3>1, MediaRecords
            <3>3. Voices["openai"] = {}
                BY DEF Voices
            <3> QED
                BY <3>1, <3>2, <3>3, SpeechBuilt
        <2> QED
            BY <2>1, <2>2 DEF LateRefusals
    <1> QED
        BY <1>1, MediaCorrect, PTL

\* The seconds of audio, of each container.
LEMMA SecondsOf ==
    ASSUME NEW q, q.tenths \in Nat, q.rate \in Nat
    PROVE  SecondsBilled(q, BillingSeconds(AudioTenths(q)))
    <1>1. \A n \in Nat : /\ 10 * BillingSeconds(n) >= n /\ 10 * (BillingSeconds(n) - 1) < n
                       /\ BillingSeconds(n) \in Nat
        BY DEF BillingSeconds
    <1>2. CASE q.audio = "wav"
        BY <1>1, <1>2 DEF SecondsBilled, AudioTenths
    <1>3. CASE q.audio = "mp3"
        <2>1. PICK t, r, n : t = q.tenths /\ r = q.rate /\ n = (t * r) \div 128
            OBVIOUS
        <2>2. t \in Nat /\ r \in Nat /\ t * r \in Nat
            BY <2>1
        <2>3. n \in Nat /\ 128 * n <= t * r /\ t * r < 128 * n + 128
            BY <2>1, <2>2
        <2>4. r >= 128 => t * r >= t * 128
            BY <2>2
        <2>5. r <= 128 => t * r <= t * 128
            BY <2>2
        <2>6. (r >= 128 => n >= t) /\ (r <= 128 => n <= t)
            BY <2>2, <2>3, <2>4, <2>5
        <2>7. AudioTenths(q) = n
            BY <1>3, <2>1 DEF AudioTenths
        <2>8. PICK u : u = BillingSeconds(n)
            OBVIOUS
        <2>9. u \in Nat /\ 10 * u >= n /\ 10 * (u - 1) < n
            BY <1>1, <2>3, <2>8
        <2>10. (r >= 128 => 10 * u >= t) /\ (r <= 128 => 10 * (u - 1) < t)
            BY <2>2, <2>3, <2>6, <2>9
        <2> QED
            BY <1>3, <2>1, <2>7, <2>8, <2>10 DEF SecondsBilled
    <1>4. CASE q.audio \notin {"wav", "mp3"}
        <2>1. AudioTenths(q) = 0 /\ BillingSeconds(0) = 0
            BY <1>4 DEF AudioTenths, BillingSeconds
        <2> QED
            BY <1>4, <2>1 DEF SecondsBilled
    <1> QED
        BY <1>2, <1>3, <1>4

\* What the parts of an answer cost.
LEMMA UnitsOf ==
    ASSUME NEW p \in Providers, NEW q \in MediaRequests, NEW a \in MediaAnswers,
           BuildMediaCall(p, q) # Refused, NormalizeMedia(p, q, a) # Refused
    PROVE  LET units == NormalizeMedia(p, q, a)[1].units
           IN  CASE q.kind = "speech" -> units = q.length
                 [] q.kind = "transcription" -> SecondsBilled(q, units)
                 [] q.kind = "images" ->
                       IF a.images > 0 THEN units = a.images ELSE units \in 1..10
    <1> DEFINE result == NormalizeMedia(p, q, a)
    <1>1. /\ q.kind \in {"speech", "transcription", "images"} /\ q.n \in Int
          /\ q.tenths \in Nat /\ q.rate \in Nat
          /\ a.json \in BOOLEAN /\ a.images \in Nat
        BY ExchangeAssumption
    <1>2. CASE q.kind = "speech"
        <2>1. p \in {"openai", "gemini", "mimo"}
            BY <1>2, SpeechBuilt
        <2>2. result \in {NormalizeSpeechOpenAI(q, a), NormalizeSpeechGemini(q, a),
                          NormalizeSpeechMiMo(q, a)}
            BY <1>2, <2>1 DEF NormalizeMedia
        <2>3. \E body : result = Result(body, q.length)
            BY <2>2 DEF NormalizeSpeechOpenAI, NormalizeSpeechGemini, NormalizeSpeechMiMo,
                        Characters
        <2>4. result[1].units = q.length
            BY <2>3, ResultOf
        <2> QED
            BY <1>2, <2>4
    <1>3. CASE q.kind = "transcription"
        <2>1. result = NormalizeTranscription(q, a)
            BY <1>3 DEF NormalizeMedia
        <2>2. \E body : result = Result(body, BillingSeconds(AudioTenths(q)))
            BY <2>1 DEF NormalizeTranscription
        <2>3. result[1].units = BillingSeconds(AudioTenths(q))
            BY <2>2, ResultOf
        <2>4. SecondsBilled(q, BillingSeconds(AudioTenths(q)))
            BY <1>1, SecondsOf
        <2> QED
            BY <1>3, <2>3, <2>4
    <1>4. CASE q.kind = "images"
        <2>1. p \in {"openai", "mimo", "gemini"}
            BY <1>4, PicturesBuilt
        <2>2. ImageCount(q.n) \in 1..10
            BY <1>1 DEF ImageCount
        <2>3. result \in {NormalizeImagesOpenAI(q, a), NormalizeImagesGemini(q, a)}
            BY <1>4, <2>1 DEF NormalizeMedia
        <2>4. \/ a.images > 0 /\ result = Result("json", a.images)
              \/ a.images = 0 /\ result = Result("json", ImageCount(q.n))
            BY <1>1, <2>3 DEF NormalizeImagesOpenAI, NormalizeImagesGemini
        <2>5. IF a.images > 0 THEN result[1].units = a.images ELSE result[1].units \in 1..10
            BY <1>1, <2>2, <2>4, ResultOf
        <2> QED
            BY <1>4, <2>5
    <1> QED
        BY <1>1, <1>2, <1>3, <1>4

(***************************************************************************)
(* Of speech every character is billed; of a transcript every second begun *)
(* of a WAV, what its size makes of an MP3, nothing for what is not read;  *)
(* of images those in the answer (MediaResult.units, billing_seconds).     *)
(***************************************************************************)
THEOREM UnitsCorrect == Spec => []UnitsBilled
    <1>1. MediaInv => UnitsBilled
        <2> SUFFICES ASSUME MediaInv, phase = "answered", media.result # Refused
                     PROVE  LET q == media.request
                                units == media.result[1].units
                            IN  CASE media.kind = "speech" -> units = q.length
                                  [] media.kind = "transcription" -> SecondsBilled(q, units)
                                  [] media.kind = "images" ->
                                        IF media.answer.images > 0
                                        THEN units = media.answer.images
                                        ELSE units \in 1..10
            BY DEF UnitsBilled
        <2>1. PICK p \in Providers, q \in MediaRequests, a \in MediaAnswers :
                 media = MediaDone(p, q, a) /\ BuildMediaCall(p, q) # Refused
            BY DEF MediaInv
        <2>2. /\ media.kind = q.kind /\ media.request = q /\ media.answer = a
              /\ media.result = NormalizeMedia(p, q, a)
            BY <2>1, MediaRecords
        <2> QED
            BY <2>1, <2>2, UnitsOf, ZenonT(40)
    <1> QED
        BY <1>1, MediaCorrect, PTL
-----------------------------------------------------------------------------
(***************************************************************************)
(* The recursions over the lines, the events and the chunks of a stream    *)
(* define functions: each is the first value, and a step at a time.        *)
(***************************************************************************)
\* What the reader holds after a line.
LEMMA ReadingsStep ==
    ASSUME NEW lines, Len(lines) \in Nat
    PROVE  /\ Readings(lines)[0] = NoFrame
           /\ \A i \in 1..Len(lines) :
                 Readings(lines)[i] =
                    ReadLine(Readings(lines)[i - 1], lines[i])
    <1> DEFINE Value(f, i) ==
                  IF i = 0 THEN NoFrame ELSE ReadLine(f[i - 1], lines[i])
               Runs(f, n) == f = [i \in 0..n |-> Value(f, i)]
               T == {n \in Nat : ~\E f : Runs(f, n)}
    <1>1. T = {}
        <2> SUFFICES ASSUME T # {} PROVE FALSE
            OBVIOUS
        <2>1. PICK n \in T : \A k \in T : n <= k
            <3>1. T \subseteq Nat
                OBVIOUS
            <3> HIDE DEF T
            <3> QED
                BY <3>1, LeastNumber
        <2>2. n # 0
            <3> DEFINE f == [i \in 0..0 |-> NoFrame]
            <3>1. f = [i \in 0..0 |-> Value(f, i)]
                OBVIOUS
            <3> HIDE DEF f
            <3>2. Runs(f, 0)
                BY <3>1
            <3> QED
                BY <3>2
        <2>3. n \in Nat /\ n - 1 \in Nat /\ ~(n <= n - 1)
            BY <2>2
        <2>4. PICK f : Runs(f, n - 1)
            BY <2>1, <2>3
        <2> DEFINE g == [i \in 0..n |-> IF i = n THEN ReadLine(f[n - 1], lines[n]) ELSE f[i]]
        <2>5. \A i \in 0..n - 1 : f[i] = Value(f, i)
            BY <2>4
        <2>6. g = [i \in 0..n |-> Value(g, i)]
            BY <2>3, <2>5
        <2> HIDE DEF g
        <2>7. Runs(g, n)
            BY <2>6
        <2> QED
            BY <2>7
    <1>2. \E f : Runs(f, Len(lines))
        BY <1>1
    <1>3. Readings(lines) = CHOOSE f : Runs(f, Len(lines))
        BY DEF Readings
    <1> HIDE DEF Runs
    <1>4. Runs(Readings(lines), Len(lines))
        BY <1>2, <1>3
    <1> DEFINE r == Readings(lines)
    <1>5. r = [i \in 0..Len(lines) |-> Value(r, i)]
        BY <1>4 DEF Runs
    <1> HIDE DEF r
    <1>6. r[0] = NoFrame /\ \A i \in 1..Len(lines) : r[i] = ReadLine(r[i - 1], lines[i])
        BY <1>5
    <1> QED
        BY <1>6 DEF r

\* The locals of the adapter after an event.
LEMMA RunStep ==
    ASSUME NEW locals, NEW events, Len(events) \in Nat
    PROVE  /\ AnthropicRun(locals, events)[0] = [ad |-> locals, chunks |-> <<>>]
           /\ \A i \in 1..Len(events) :
                 AnthropicRun(locals, events)[i] =
                    AfterEvent(AnthropicRun(locals, events)[i - 1], events[i])
    <1> DEFINE Value(f, i) ==
                  IF i = 0 THEN [ad |-> locals, chunks |-> <<>>]
                  ELSE AfterEvent(f[i - 1], events[i])
               Runs(f, n) == f = [i \in 0..n |-> Value(f, i)]
               T == {n \in Nat : ~\E f : Runs(f, n)}
    <1>1. T = {}
        <2> SUFFICES ASSUME T # {} PROVE FALSE
            OBVIOUS
        <2>1. PICK n \in T : \A k \in T : n <= k
            <3>1. T \subseteq Nat
                OBVIOUS
            <3> HIDE DEF T
            <3> QED
                BY <3>1, LeastNumber
        <2>2. n # 0
            <3> DEFINE f == [i \in 0..0 |-> [ad |-> locals, chunks |-> <<>>]]
            <3>1. f = [i \in 0..0 |-> Value(f, i)]
                OBVIOUS
            <3> HIDE DEF f
            <3>2. Runs(f, 0)
                BY <3>1
            <3> QED
                BY <3>2
        <2>3. n \in Nat /\ n - 1 \in Nat /\ ~(n <= n - 1)
            BY <2>2
        <2>4. PICK f : Runs(f, n - 1)
            BY <2>1, <2>3
        <2> DEFINE g == [i \in 0..n |-> IF i = n THEN AfterEvent(f[n - 1], events[n]) ELSE f[i]]
        <2>5. \A i \in 0..n - 1 : f[i] = Value(f, i)
            BY <2>4
        <2>6. g = [i \in 0..n |-> Value(g, i)]
            BY <2>3, <2>5
        <2> HIDE DEF g
        <2>7. Runs(g, n)
            BY <2>6
        <2> QED
            BY <2>7
    <1>2. \E f : Runs(f, Len(events))
        BY <1>1
    <1>3. AnthropicRun(locals, events) = CHOOSE f : Runs(f, Len(events))
        BY DEF AnthropicRun
    <1> HIDE DEF Runs
    <1>4. Runs(AnthropicRun(locals, events), Len(events))
        BY <1>2, <1>3
    <1> DEFINE r == AnthropicRun(locals, events)
    <1>5. r = [i \in 0..Len(events) |-> Value(r, i)]
        BY <1>4 DEF Runs
    <1> HIDE DEF r
    <1>6. /\ r[0] = [ad |-> locals, chunks |-> <<>>]
          /\ \A i \in 1..Len(events) : r[i] = AfterEvent(r[i - 1], events[i])
        BY <1>5
    <1> QED
        BY <1>6 DEF r

\* What the client holds after a chunk.
LEMMA TakingsStep ==
    ASSUME NEW v, NEW c, NEW chunks, Len(chunks) \in Nat
    PROVE  /\ Takings(v, c, chunks)[0] = [view |-> v, counter |-> c]
           /\ \A i \in 1..Len(chunks) :
                 Takings(v, c, chunks)[i] =
                    AfterChunk(Takings(v, c, chunks)[i - 1], chunks[i])
    <1> DEFINE Value(f, i) ==
                  IF i = 0 THEN [view |-> v, counter |-> c] ELSE AfterChunk(f[i - 1], chunks[i])
               Runs(f, n) == f = [i \in 0..n |-> Value(f, i)]
               T == {n \in Nat : ~\E f : Runs(f, n)}
    <1>1. T = {}
        <2> SUFFICES ASSUME T # {} PROVE FALSE
            OBVIOUS
        <2>1. PICK n \in T : \A k \in T : n <= k
            <3>1. T \subseteq Nat
                OBVIOUS
            <3> HIDE DEF T
            <3> QED
                BY <3>1, LeastNumber
        <2>2. n # 0
            <3> DEFINE f == [i \in 0..0 |-> [view |-> v, counter |-> c]]
            <3>1. f = [i \in 0..0 |-> Value(f, i)]
                OBVIOUS
            <3> HIDE DEF f
            <3>2. Runs(f, 0)
                BY <3>1
            <3> QED
                BY <3>2
        <2>3. n \in Nat /\ n - 1 \in Nat /\ ~(n <= n - 1)
            BY <2>2
        <2>4. PICK f : Runs(f, n - 1)
            BY <2>1, <2>3
        <2> DEFINE g == [i \in 0..n |-> IF i = n THEN AfterChunk(f[n - 1], chunks[n]) ELSE f[i]]
        <2>5. \A i \in 0..n - 1 : f[i] = Value(f, i)
            BY <2>4
        <2>6. g = [i \in 0..n |-> Value(g, i)]
            BY <2>3, <2>5
        <2> HIDE DEF g
        <2>7. Runs(g, n)
            BY <2>6
        <2> QED
            BY <2>7
    <1>2. \E f : Runs(f, Len(chunks))
        BY <1>1
    <1>3. Takings(v, c, chunks) = CHOOSE f : Runs(f, Len(chunks))
        BY DEF Takings
    <1> HIDE DEF Runs
    <1>4. Runs(Takings(v, c, chunks), Len(chunks))
        BY <1>2, <1>3
    <1> DEFINE r == Takings(v, c, chunks)
    <1>5. r = [i \in 0..Len(chunks) |-> Value(r, i)]
        BY <1>4 DEF Runs
    <1> HIDE DEF r
    <1>6. /\ r[0] = [view |-> v, counter |-> c]
          /\ \A i \in 1..Len(chunks) : r[i] = AfterChunk(r[i - 1], chunks[i])
        BY <1>5
    <1> QED
        BY <1>6 DEF r

\* What the blocks of an answer tell, one after another.
LEMMA BlocksStep ==
    ASSUME NEW blocks, Len(blocks) \in Nat
    PROVE  /\ BlocksTold(blocks)[0] = NothingTold
           /\ \A i \in 1..Len(blocks) :
                 BlocksTold(blocks)[i] =
                    AfterBlock(BlocksTold(blocks)[i - 1], blocks[i])
    <1> DEFINE Value(f, i) ==
                  IF i = 0 THEN NothingTold ELSE AfterBlock(f[i - 1], blocks[i])
               Runs(f, n) == f = [i \in 0..n |-> Value(f, i)]
               T == {n \in Nat : ~\E f : Runs(f, n)}
    <1>1. T = {}
        <2> SUFFICES ASSUME T # {} PROVE FALSE
            OBVIOUS
        <2>1. PICK n \in T : \A k \in T : n <= k
            <3>1. T \subseteq Nat
                OBVIOUS
            <3> HIDE DEF T
            <3> QED
                BY <3>1, LeastNumber
        <2>2. n # 0
            <3> DEFINE f == [i \in 0..0 |-> NothingTold]
            <3>1. f = [i \in 0..0 |-> Value(f, i)]
                OBVIOUS
            <3> HIDE DEF f
            <3>2. Runs(f, 0)
                BY <3>1
            <3> QED
                BY <3>2
        <2>3. n \in Nat /\ n - 1 \in Nat /\ ~(n <= n - 1)
            BY <2>2
        <2>4. PICK f : Runs(f, n - 1)
            BY <2>1, <2>3
        <2> DEFINE g == [i \in 0..n |-> IF i = n THEN AfterBlock(f[n - 1], blocks[n]) ELSE f[i]]
        <2>5. \A i \in 0..n - 1 : f[i] = Value(f, i)
            BY <2>4
        <2>6. g = [i \in 0..n |-> Value(g, i)]
            BY <2>3, <2>5
        <2> HIDE DEF g
        <2>7. Runs(g, n)
            BY <2>6
        <2> QED
            BY <2>7
    <1>2. \E f : Runs(f, Len(blocks))
        BY <1>1
    <1>3. BlocksTold(blocks) = CHOOSE f : Runs(f, Len(blocks))
        BY DEF BlocksTold
    <1> HIDE DEF Runs
    <1>4. Runs(BlocksTold(blocks), Len(blocks))
        BY <1>2, <1>3
    <1> DEFINE r == BlocksTold(blocks)
    <1>5. r = [i \in 0..Len(blocks) |-> Value(r, i)]
        BY <1>4 DEF Runs
    <1> HIDE DEF r
    <1>6. /\ r[0] = NothingTold
          /\ \A i \in 1..Len(blocks) : r[i] = AfterBlock(r[i - 1], blocks[i])
        BY <1>5
    <1> QED
        BY <1>6 DEF r

\* What its parts tell, one after another.
LEMMA PartsStep ==
    ASSUME NEW parts, Len(parts) \in Nat
    PROVE  /\ PartsTold(parts)[0] = NothingTold
           /\ \A i \in 1..Len(parts) :
                 PartsTold(parts)[i] =
                    AfterPart(PartsTold(parts)[i - 1], parts[i])
    <1> DEFINE Value(f, i) ==
                  IF i = 0 THEN NothingTold ELSE AfterPart(f[i - 1], parts[i])
               Runs(f, n) == f = [i \in 0..n |-> Value(f, i)]
               T == {n \in Nat : ~\E f : Runs(f, n)}
    <1>1. T = {}
        <2> SUFFICES ASSUME T # {} PROVE FALSE
            OBVIOUS
        <2>1. PICK n \in T : \A k \in T : n <= k
            <3>1. T \subseteq Nat
                OBVIOUS
            <3> HIDE DEF T
            <3> QED
                BY <3>1, LeastNumber
        <2>2. n # 0
            <3> DEFINE f == [i \in 0..0 |-> NothingTold]
            <3>1. f = [i \in 0..0 |-> Value(f, i)]
                OBVIOUS
            <3> HIDE DEF f
            <3>2. Runs(f, 0)
                BY <3>1
            <3> QED
                BY <3>2
        <2>3. n \in Nat /\ n - 1 \in Nat /\ ~(n <= n - 1)
            BY <2>2
        <2>4. PICK f : Runs(f, n - 1)
            BY <2>1, <2>3
        <2> DEFINE g == [i \in 0..n |-> IF i = n THEN AfterPart(f[n - 1], parts[n]) ELSE f[i]]
        <2>5. \A i \in 0..n - 1 : f[i] = Value(f, i)
            BY <2>4
        <2>6. g = [i \in 0..n |-> Value(g, i)]
            BY <2>3, <2>5
        <2> HIDE DEF g
        <2>7. Runs(g, n)
            BY <2>6
        <2> QED
            BY <2>7
    <1>2. \E f : Runs(f, Len(parts))
        BY <1>1
    <1>3. PartsTold(parts) = CHOOSE f : Runs(f, Len(parts))
        BY DEF PartsTold
    <1> HIDE DEF Runs
    <1>4. Runs(PartsTold(parts), Len(parts))
        BY <1>2, <1>3
    <1> DEFINE r == PartsTold(parts)
    <1>5. r = [i \in 0..Len(parts) |-> Value(r, i)]
        BY <1>4 DEF Runs
    <1> HIDE DEF r
    <1>6. /\ r[0] = NothingTold
          /\ \A i \in 1..Len(parts) : r[i] = AfterPart(r[i - 1], parts[i])
        BY <1>5
    <1> QED
        BY <1>6 DEF r

\* What they tell is told by those up to there alone.
LEMMA BlocksAlike ==
    ASSUME NEW blocks, NEW more, Len(blocks) \in Nat, Len(more) \in Nat, NEW n \in Nat,
           n <= Len(blocks), n <= Len(more), \A i \in 1..n : blocks[i] = more[i]
    PROVE  \A i \in 0..n : BlocksTold(blocks)[i] = BlocksTold(more)[i]
    <1> DEFINE T == {i \in 0..n : BlocksTold(blocks)[i] # BlocksTold(more)[i]}
    <1> SUFFICES ASSUME T # {} PROVE FALSE
        OBVIOUS
    <1>1. PICK m \in T : \A k \in T : m <= k
        <2>1. T \subseteq Nat
            OBVIOUS
        <2> HIDE DEF T
        <2> QED
            BY <2>1, LeastNumber
    <1>2. /\ BlocksTold(blocks)[0] = NothingTold /\ BlocksTold(more)[0] = NothingTold
          /\ \A i \in 1..Len(blocks) : BlocksTold(blocks)[i] = AfterBlock(BlocksTold(blocks)[i - 1], blocks[i])
        BY BlocksStep
    <1>3. \A i \in 1..Len(more) : BlocksTold(more)[i] = AfterBlock(BlocksTold(more)[i - 1], more[i])
        BY BlocksStep
    <1>4. m # 0
        BY <1>2
    <1>5. /\ m \in 1..n /\ m \in 1..Len(blocks) /\ m \in 1..Len(more)
          /\ m - 1 \in 0..n /\ ~(m <= m - 1)
        BY <1>4
    <1>6. BlocksTold(blocks)[m - 1] = BlocksTold(more)[m - 1]
        BY <1>1, <1>5
    <1>7. blocks[m] = more[m]
        BY <1>5
    <1> QED
        BY <1>2, <1>3, <1>5, <1>6, <1>7

LEMMA PartsAlike ==
    ASSUME NEW parts, NEW more, Len(parts) \in Nat, Len(more) \in Nat, NEW n \in Nat,
           n <= Len(parts), n <= Len(more), \A i \in 1..n : parts[i] = more[i]
    PROVE  \A i \in 0..n : PartsTold(parts)[i] = PartsTold(more)[i]
    <1> DEFINE T == {i \in 0..n : PartsTold(parts)[i] # PartsTold(more)[i]}
    <1> SUFFICES ASSUME T # {} PROVE FALSE
        OBVIOUS
    <1>1. PICK m \in T : \A k \in T : m <= k
        <2>1. T \subseteq Nat
            OBVIOUS
        <2> HIDE DEF T
        <2> QED
            BY <2>1, LeastNumber
    <1>2. /\ PartsTold(parts)[0] = NothingTold /\ PartsTold(more)[0] = NothingTold
          /\ \A i \in 1..Len(parts) : PartsTold(parts)[i] = AfterPart(PartsTold(parts)[i - 1], parts[i])
        BY PartsStep
    <1>3. \A i \in 1..Len(more) : PartsTold(more)[i] = AfterPart(PartsTold(more)[i - 1], more[i])
        BY PartsStep
    <1>4. m # 0
        BY <1>2
    <1>5. /\ m \in 1..n /\ m \in 1..Len(parts) /\ m \in 1..Len(more)
          /\ m - 1 \in 0..n /\ ~(m <= m - 1)
        BY <1>4
    <1>6. PartsTold(parts)[m - 1] = PartsTold(more)[m - 1]
        BY <1>1, <1>5
    <1>7. parts[m] = more[m]
        BY <1>5
    <1> QED
        BY <1>2, <1>3, <1>5, <1>6, <1>7

\* The sum after a number.
LEMMA NumbersStep ==
    ASSUME NEW numbers, Len(numbers) \in Nat
    PROVE  /\ SumsOf(numbers)[0] = 0
           /\ \A i \in 1..Len(numbers) : SumsOf(numbers)[i] = SumsOf(numbers)[i - 1] + numbers[i]
    <1> DEFINE Runs(f, n) == f = [i \in 0..n |-> IF i = 0 THEN 0 ELSE f[i - 1] + numbers[i]]
               T == {n \in Nat : ~\E f : Runs(f, n)}
    <1>1. T = {}
        <2> SUFFICES ASSUME T # {} PROVE FALSE
            OBVIOUS
        <2>1. PICK n \in T : \A k \in T : n <= k
            <3>1. T \subseteq Nat
                OBVIOUS
            <3> HIDE DEF T
            <3> QED
                BY <3>1, LeastNumber
        <2>2. n # 0
            <3> DEFINE f == [i \in 0..0 |-> 0]
            <3>1. f = [i \in 0..0 |-> IF i = 0 THEN 0 ELSE f[i - 1] + numbers[i]]
                OBVIOUS
            <3> HIDE DEF f
            <3>2. Runs(f, 0)
                BY <3>1
            <3> QED
                BY <3>2
        <2>3. n \in Nat /\ n - 1 \in Nat /\ ~(n <= n - 1)
            BY <2>2
        <2>4. PICK f : Runs(f, n - 1)
            BY <2>1, <2>3
        <2> DEFINE g == [i \in 0..n |-> IF i = n THEN f[n - 1] + numbers[n] ELSE f[i]]
        <2>5. \A i \in 0..n - 1 : f[i] = IF i = 0 THEN 0 ELSE f[i - 1] + numbers[i]
            BY <2>4
        <2>6. g = [i \in 0..n |-> IF i = 0 THEN 0 ELSE g[i - 1] + numbers[i]]
            BY <2>3, <2>5
        <2> HIDE DEF g
        <2>7. Runs(g, n)
            BY <2>6
        <2> QED
            BY <2>7
    <1>2. \E f : Runs(f, Len(numbers))
        BY <1>1
    <1>3. SumsOf(numbers) = CHOOSE f : Runs(f, Len(numbers))
        BY DEF SumsOf
    <1> HIDE DEF Runs
    <1>4. Runs(SumsOf(numbers), Len(numbers))
        BY <1>2, <1>3
    <1> DEFINE r == SumsOf(numbers)
    <1>5. r = [i \in 0..Len(numbers) |-> IF i = 0 THEN 0 ELSE r[i - 1] + numbers[i]]
        BY <1>4 DEF Runs
    <1> HIDE DEF r
    <1>6. r[0] = 0 /\ \A i \in 1..Len(numbers) : r[i] = r[i - 1] + numbers[i]
        BY <1>5
    <1> QED
        BY <1>6 DEF r

-----------------------------------------------------------------------------
(***************************************************************************)
(* Counting.  Sums of numbers, and of what the pieces of a text weigh, are *)
(* those of its parts.                                                     *)
(***************************************************************************)
LEMMA NumbersNat ==
    ASSUME NEW s \in Seq(Nat)
    PROVE  \A i \in 0..Len(s) : SumsOf(s)[i] \in Nat
    <1> DEFINE T == {i \in 0..Len(s) : SumsOf(s)[i] \notin Nat}
    <1>1. Len(s) \in Nat /\ \A i \in 1..Len(s) : s[i] \in Nat
        OBVIOUS
    <1> SUFFICES ASSUME T # {} PROVE FALSE
        OBVIOUS
    <1>2. PICK n \in T : \A k \in T : n <= k
        <2>1. T \subseteq Nat
            BY <1>1
        <2> HIDE DEF T
        <2> QED
            BY <2>1, LeastNumber
    <1>3. n # 0
        BY <1>1, NumbersStep
    <1>4. n \in 1..Len(s) /\ n - 1 \in 0..Len(s) /\ ~(n <= n - 1)
        BY <1>1, <1>3
    <1>5. SumsOf(s)[n - 1] \in Nat
        BY <1>2, <1>4
    <1>6. SumsOf(s)[n] = SumsOf(s)[n - 1] + s[n]
        BY <1>1, <1>4, NumbersStep
    <1> QED
        BY <1>1, <1>4, <1>5, <1>6

LEMMA SumOfBoth ==
    ASSUME NEW s \in Seq(Nat), NEW t \in Seq(Nat)
    PROVE  SumOf(s \o t) = SumOf(s) + SumOf(t)
    <1> DEFINE both == s \o t
               S == {i \in 0..Len(s) : SumsOf(both)[i] # SumsOf(s)[i]}
               T == {j \in 0..Len(t) : SumsOf(both)[Len(s) + j] # SumOf(s) + SumsOf(t)[j]}
    <1>1. /\ both \in Seq(Nat) /\ Len(s) \in Nat /\ Len(t) \in Nat
          /\ Len(both) = Len(s) + Len(t)
          /\ \A i \in 1..Len(s) : both[i] = s[i]
          /\ \A j \in 1..Len(t) : both[Len(s) + j] = t[j]
        OBVIOUS
    <1> HIDE DEF both
    <1>2. /\ \A i \in 0..Len(s) : SumsOf(s)[i] \in Nat
          /\ \A j \in 0..Len(t) : SumsOf(t)[j] \in Nat
        BY NumbersNat
    <1>3. /\ SumsOf(both)[0] = 0 /\ SumsOf(s)[0] = 0 /\ SumsOf(t)[0] = 0
          /\ \A i \in 1..Len(s) : SumsOf(s)[i] = SumsOf(s)[i - 1] + s[i]
          /\ \A j \in 1..Len(t) : SumsOf(t)[j] = SumsOf(t)[j - 1] + t[j]
          /\ \A i \in 1..Len(both) : SumsOf(both)[i] = SumsOf(both)[i - 1] + both[i]
        <2>1. SumsOf(s)[0] = 0 /\ \A i \in 1..Len(s) : SumsOf(s)[i] = SumsOf(s)[i - 1] + s[i]
            BY <1>1, NumbersStep
        <2>2. SumsOf(t)[0] = 0 /\ \A j \in 1..Len(t) : SumsOf(t)[j] = SumsOf(t)[j - 1] + t[j]
            BY <1>1, NumbersStep
        <2>3. /\ SumsOf(both)[0] = 0
              /\ \A i \in 1..Len(both) : SumsOf(both)[i] = SumsOf(both)[i - 1] + both[i]
            <3>1. Len(both) \in Nat
                BY <1>1
            <3> QED
                BY <3>1, NumbersStep
        <2> QED
            BY <2>1, <2>2, <2>3
    <1>4. S = {}
        <2> SUFFICES ASSUME S # {} PROVE FALSE
            OBVIOUS
        <2>1. PICK n \in S : \A k \in S : n <= k
            <3>1. S \subseteq Nat
                BY <1>1
            <3> HIDE DEF S
            <3> QED
                BY <3>1, LeastNumber
        <2>2. n # 0
            BY <1>3
        <2>3. n \in 1..Len(s) /\ n - 1 \in 0..Len(s) /\ ~(n <= n - 1) /\ n \in 1..Len(both)
            BY <1>1, <2>2
        <2>4. SumsOf(both)[n - 1] = SumsOf(s)[n - 1]
            BY <2>1, <2>3
        <2> QED
            BY <1>1, <1>3, <2>3, <2>4
    <1>5. SumsOf(both)[Len(s)] = SumOf(s)
        <2>1. Len(s) \in 0..Len(s)
            BY <1>1
        <2>2. Len(s) \notin S
            BY <1>4
        <2> QED
            BY <2>1, <2>2 DEF SumOf
    <1>6. T = {}
        <2> SUFFICES ASSUME T # {} PROVE FALSE
            OBVIOUS
        <2>1. PICK n \in T : \A k \in T : n <= k
            <3>1. T \subseteq Nat
                BY <1>1
            <3> HIDE DEF T
            <3> QED
                BY <3>1, LeastNumber
        <2>2. SumOf(s) \in Nat
            BY <1>1, <1>2 DEF SumOf
        <2>3. n # 0
            BY <1>1, <1>3, <1>5, <2>2
        <2>4. /\ n \in 1..Len(t) /\ n - 1 \in 0..Len(t) /\ ~(n <= n - 1)
              /\ Len(s) + n \in 1..Len(both) /\ (Len(s) + n) - 1 = Len(s) + (n - 1)
            BY <1>1, <2>3
        <2>5. SumsOf(both)[Len(s) + (n - 1)] = SumOf(s) + SumsOf(t)[n - 1]
            BY <2>1, <2>4
        <2>6. SumsOf(both)[Len(s) + n] = SumsOf(both)[Len(s) + (n - 1)] + both[Len(s) + n]
            BY <1>3, <2>4
        <2>7. SumsOf(both)[Len(s) + n] = (SumOf(s) + SumsOf(t)[n - 1]) + t[n]
            BY <1>1, <2>4, <2>5, <2>6
        <2>8. SumsOf(t)[n - 1] \in Nat /\ t[n] \in Nat /\ SumsOf(t)[n] = SumsOf(t)[n - 1] + t[n]
            BY <1>2, <1>3, <2>4
        <2> QED
            BY <2>2, <2>7, <2>8
    <1>7. SumsOf(both)[Len(both)] = SumOf(s) + SumsOf(t)[Len(t)]
        <2>1. Len(t) \in 0..Len(t) /\ Len(t) \notin T
            BY <1>1, <1>6
        <2> QED
            BY <1>1, <2>1
    <1> QED
        BY <1>7 DEF SumOf, both

\* What the pieces of a text weigh, piece by piece.
Cjks(text) == [i \in DOMAIN text |-> Cjk(text[i])]
Others(text) == [i \in DOMAIN text |-> Other(text[i])]

LEMMA WeightsTyped ==
    ASSUME NEW text \in Seq(Nat)
    PROVE  Cjks(text) \in Seq(Nat) /\ Others(text) \in Seq(Nat)
    BY DEF Cjks, Others, Cjk, Other

LEMMA WeightsOfBoth ==
    ASSUME NEW s \in Seq(Nat), NEW t \in Seq(Nat)
    PROVE  /\ SumOf(Cjks(s \o t)) = SumOf(Cjks(s)) + SumOf(Cjks(t))
           /\ SumOf(Others(s \o t)) = SumOf(Others(s)) + SumOf(Others(t))
    <1> DEFINE both == s \o t
    <1>1. /\ both \in Seq(Nat) /\ DOMAIN both = 1..Len(s) + Len(t)
          /\ DOMAIN s = 1..Len(s) /\ DOMAIN t = 1..Len(t) /\ Len(s) \in Nat /\ Len(t) \in Nat
          /\ \A i \in 1..Len(s) + Len(t) : both[i] = IF i <= Len(s) THEN s[i] ELSE t[i - Len(s)]
        OBVIOUS
    <1> HIDE DEF both
    <1>2. Cjks(both) = Cjks(s) \o Cjks(t)
        <2>1. Cjks(s) \in Seq(Nat) /\ Cjks(t) \in Seq(Nat) /\ Cjks(both) \in Seq(Nat)
            BY <1>1, WeightsTyped
        <2>3. /\ DOMAIN Cjks(s) = 1..Len(s) /\ DOMAIN Cjks(t) = 1..Len(t)
              /\ DOMAIN Cjks(both) = 1..Len(s) + Len(t)
            BY <1>1 DEF Cjks
        <2>4. /\ Len(Cjks(s)) = Len(s) /\ Len(Cjks(t)) = Len(t)
              /\ Len(Cjks(both)) = Len(s) + Len(t)
            BY <1>1, <2>1, <2>3
        <2>2. \A i \in 1..Len(s) + Len(t) :
                 Cjks(both)[i] = IF i <= Len(s) THEN Cjks(s)[i] ELSE Cjks(t)[i - Len(s)]
            BY <1>1 DEF Cjks
        <2>5. /\ Cjks(s) \o Cjks(t) \in Seq(Nat)
              /\ Len(Cjks(s) \o Cjks(t)) = Len(s) + Len(t)
              /\ \A i \in 1..Len(s) + Len(t) :
                    (Cjks(s) \o Cjks(t))[i] =
                       IF i <= Len(s) THEN Cjks(s)[i] ELSE Cjks(t)[i - Len(s)]
            BY <2>1, <2>4, ConcatProperties, SMTT(20)
        <2> QED
            BY <2>1, <2>2, <2>4, <2>5, SeqEqual
    <1>3. Others(both) = Others(s) \o Others(t)
        <2>1. Others(s) \in Seq(Nat) /\ Others(t) \in Seq(Nat) /\ Others(both) \in Seq(Nat)
            BY <1>1, WeightsTyped
        <2>3. /\ DOMAIN Others(s) = 1..Len(s) /\ DOMAIN Others(t) = 1..Len(t)
              /\ DOMAIN Others(both) = 1..Len(s) + Len(t)
            BY <1>1 DEF Others
        <2>4. /\ Len(Others(s)) = Len(s) /\ Len(Others(t)) = Len(t)
              /\ Len(Others(both)) = Len(s) + Len(t)
            BY <1>1, <2>1, <2>3
        <2>2. \A i \in 1..Len(s) + Len(t) :
                 Others(both)[i] = IF i <= Len(s) THEN Others(s)[i] ELSE Others(t)[i - Len(s)]
            BY <1>1 DEF Others
        <2>5. /\ Others(s) \o Others(t) \in Seq(Nat)
              /\ Len(Others(s) \o Others(t)) = Len(s) + Len(t)
              /\ \A i \in 1..Len(s) + Len(t) :
                    (Others(s) \o Others(t))[i] =
                       IF i <= Len(s) THEN Others(s)[i] ELSE Others(t)[i - Len(s)]
            BY <2>1, <2>4, ConcatProperties, SMTT(20)
        <2> QED
            BY <2>1, <2>2, <2>4, <2>5, SeqEqual
    <1> QED
        BY <1>2, <1>3, WeightsTyped, SumOfBoth DEF both

LEMMA SumNat ==
    ASSUME NEW s \in Seq(Nat)
    PROVE  SumOf(Cjks(s)) \in Nat /\ SumOf(Others(s)) \in Nat
    <1>1. Cjks(s) \in Seq(Nat) /\ Others(s) \in Seq(Nat)
        BY WeightsTyped
    <1>2. Len(Cjks(s)) \in Nat /\ Len(Others(s)) \in Nat
        BY <1>1
    <1> QED
        BY <1>1, <1>2, NumbersNat DEF SumOf

LEMMA WeightOfNone ==
    SumOf(Cjks(<<>>)) = 0 /\ SumOf(Others(<<>>)) = 0
    <1>1. Cjks(<<>>) = <<>> /\ Others(<<>>) = <<>> /\ Len(<<>>) = 0
        BY DEF Cjks, Others
    <1>2. SumsOf(<<>>)[0] = 0
        BY <1>1, NumbersStep
    <1> QED
        BY <1>1, <1>2 DEF SumOf

LEMMA WeightOfOne ==
    ASSUME NEW p \in Nat
    PROVE  SumOf(Cjks(<<p>>)) = Cjk(p) /\ SumOf(Others(<<p>>)) = Other(p)
    <1>1. ASSUME NEW n \in Nat PROVE SumOf(<<n>>) = n
        <2>1. Len(<<n>>) = 1 /\ <<n>>[1] = n
            OBVIOUS
        <2>2. SumsOf(<<n>>)[0] = 0 /\ SumsOf(<<n>>)[1] = SumsOf(<<n>>)[1 - 1] + <<n>>[1]
            BY <2>1, NumbersStep
        <2> QED
            BY <2>1, <2>2 DEF SumOf
    <1>2. Cjks(<<p>>) = <<Cjk(p)>> /\ Others(<<p>>) = <<Other(p)>>
        BY DEF Cjks, Others
    <1>3. Cjk(p) \in Nat /\ Other(p) \in Nat
        BY DEF Cjk, Other
    <1> QED
        BY <1>1, <1>2, <1>3

LEMMA WeightOfMore ==
    ASSUME NEW s \in Seq(Nat), NEW p \in Nat
    PROVE  /\ SumOf(Cjks(Append(s, p))) = SumOf(Cjks(s)) + Cjk(p)
           /\ SumOf(Others(Append(s, p))) = SumOf(Others(s)) + Other(p)
    <1>1. Append(s, p) = s \o <<p>> /\ <<p>> \in Seq(Nat)
        OBVIOUS
    <1> QED
        BY <1>1, WeightsOfBoth, WeightOfOne

-----------------------------------------------------------------------------
(***************************************************************************)
(* A chunk at a time.  What a client has put together of sound chunks, the *)
(* number of roles, of calls, the finish, and the tokens counted with it.  *)
(***************************************************************************)
PieceNumber == 1..MaxPieces

SoundView(text, thoughts, calls, images, audio, finish, usage, roles) ==
    [content |-> text, reasoning |-> thoughts, calls |-> calls, images |-> images,
     audio |-> audio, finish |-> finish, usage |-> usage, roles |-> roles, sound |-> TRUE]

CountOf(text, thoughts) ==
    [cjk |-> SumOf(Cjks(text)) + SumOf(Cjks(thoughts)),
     other |-> SumOf(Others(text)) + SumOf(Others(thoughts))]

Reads(v, c, roles, n, finish) ==
    \E S, text, thoughts, calls, images, audio, usage :
       /\ text \in Seq(PieceNumber) /\ thoughts \in Seq(PieceNumber)
       /\ calls \in Seq(S) /\ Len(calls) = n /\ audio \in Seq(S)
       /\ v = SoundView(text, thoughts, calls, images, audio, finish, usage, roles)
       /\ c = CountOf(text, thoughts)

LEMMA ReadNothing == Reads(Unread, NoTokens, 0, 0, <<>>)
    <1>1. Unread = SoundView(<<>>, <<>>, <<>>, <<>>, <<>>, <<>>, NoUsage, 0)
        BY DEF Unread, SoundView, NoAudio
    <1>2. NoTokens = CountOf(<<>>, <<>>)
        BY WeightOfNone DEF NoTokens, CountOf
    <1>3. <<>> \in Seq(PieceNumber) /\ <<>> \in Seq({}) /\ Len(<<>>) = 0
        OBVIOUS
    <1> QED
        BY <1>1, <1>2, <1>3 DEF Reads

\* What each chunk adds to a view that it is in place for.
LEMMA ChunkAdds ==
    ASSUME NEW text, NEW thoughts, NEW calls, NEW images, NEW audio, NEW usage
    PROVE  LET view1(roles) == SoundView(text, thoughts, calls, images, audio, <<>>, usage, roles)
           IN  /\ Assemble(view1(0), Role) = view1(1)
               /\ \A p : Assemble(view1(1), Content(p)) =
                     SoundView(Append(text, p), thoughts, calls, images, audio, <<>>, usage, 1)
               /\ \A p : Assemble(view1(1), Reasoning(p)) =
                     SoundView(text, Append(thoughts, p), calls, images, audio, <<>>, usage, 1)
               /\ \A p : Assemble(view1(1), Media("images", p)) =
                     SoundView(text, thoughts, calls, Append(images, p), audio, <<>>, usage, 1)
               /\ \A p : Assemble(view1(1), Media("audio", p)) =
                     SoundView(text, thoughts, calls, images, Append(audio, p), <<>>, usage, 1)
               /\ \A id, name, args :
                     Assemble(view1(1), CallStart(Len(calls), id, name, args)) =
                     SoundView(text, thoughts,
                               Append(calls, [id |-> id, name |-> name, args |-> args]),
                               images, audio, <<>>, usage, 1)
    <1> DEFINE view1(roles) == SoundView(text, thoughts, calls, images, audio, <<>>, usage, roles)
    <1>1. Assemble(view1(0), Role) = view1(1)
        BY DEF Assemble, Placed, Role, SoundView
    <1>2. ASSUME NEW p
          PROVE  Assemble(view1(1), Content(p)) =
                     SoundView(Append(text, p), thoughts, calls, images, audio, <<>>, usage, 1)
        BY DEF Assemble, Placed, Content, SoundView
    <1>3. ASSUME NEW p
          PROVE  Assemble(view1(1), Reasoning(p)) =
                     SoundView(text, Append(thoughts, p), calls, images, audio, <<>>, usage, 1)
        BY DEF Assemble, Placed, Reasoning, SoundView
    <1>4. ASSUME NEW p
          PROVE  Assemble(view1(1), Media("images", p)) =
                     SoundView(text, thoughts, calls, Append(images, p), audio, <<>>, usage, 1)
        BY DEF Assemble, Placed, Media, SoundView
    <1>5. ASSUME NEW p
          PROVE  Assemble(view1(1), Media("audio", p)) =
                     SoundView(text, thoughts, calls, images, Append(audio, p), <<>>, usage, 1)
        BY DEF Assemble, Placed, Media, SoundView
    <1>6. ASSUME NEW id, NEW name, NEW args
          PROVE  Assemble(view1(1), CallStart(Len(calls), id, name, args)) =
                     SoundView(text, thoughts,
                               Append(calls, [id |-> id, name |-> name, args |-> args]),
                               images, audio, <<>>, usage, 1)
        BY DEF Assemble, Placed, CallStart, SoundView
    <1> HIDE DEF view1
    <1> QED
        BY <1>1, <1>2, <1>3, <1>4, <1>5, <1>6 DEF view1

\* The calls with a piece more of the arguments of call i.
MoreArgs(calls, i, p) ==
    [calls EXCEPT ![i + 1] = [calls[i + 1] EXCEPT !.args = Append(calls[i + 1].args, p)]]

LEMMA CallsReplaced ==
    ASSUME NEW text, NEW thoughts, NEW calls, NEW images, NEW audio, NEW finish, NEW usage,
           NEW roles, NEW sound, NEW more
    PROVE  [[content |-> text, reasoning |-> thoughts, calls |-> calls, images |-> images,
             audio |-> audio, finish |-> finish, usage |-> usage, roles |-> roles,
             sound |-> sound] EXCEPT !.calls = more] =
           [content |-> text, reasoning |-> thoughts, calls |-> more, images |-> images,
            audio |-> audio, finish |-> finish, usage |-> usage, roles |-> roles,
            sound |-> sound]
    OBVIOUS

LEMMA ArgsAdd ==
    ASSUME NEW text, NEW thoughts, NEW calls, NEW images, NEW audio, NEW usage,
           NEW n \in Nat, NEW i \in 0..n - 1, NEW p, Len(calls) = n
    PROVE  Assemble(SoundView(text, thoughts, calls, images, audio, <<>>, usage, 1), CallArgs(i, p))
              = SoundView(text, thoughts, MoreArgs(calls, i, p), images, audio, <<>>, usage, 1)
    <1> DEFINE v == SoundView(text, thoughts, calls, images, audio, <<>>, usage, 1)
               chunk == CallArgs(i, p)
               more == MoreArgs(calls, i, p)
    <1>1. chunk.kind = "args" /\ chunk.index = i /\ chunk.piece = p
        BY DEF CallArgs
    <1>2. v.finish = <<>> /\ v.roles = 1 /\ v.calls = calls
        BY DEF SoundView
    <1>3. v = [content |-> text, reasoning |-> thoughts, calls |-> calls, images |-> images,
               audio |-> audio, finish |-> <<>>, usage |-> usage, roles |-> 1, sound |-> TRUE]
        BY DEF SoundView
    <1> HIDE DEF v, chunk
    <1>4. Placed(v, chunk)
        BY <1>1, <1>2 DEF Placed
    <1>5. Assemble(v, chunk) =
             [v EXCEPT !.calls = [v.calls EXCEPT ![chunk.index + 1] =
                 [v.calls[chunk.index + 1] EXCEPT
                    !.args = Append(v.calls[chunk.index + 1].args, chunk.piece)]]]
        BY <1>1, <1>4 DEF Assemble
    <1>6. more = [v.calls EXCEPT ![chunk.index + 1] =
                    [v.calls[chunk.index + 1] EXCEPT
                       !.args = Append(v.calls[chunk.index + 1].args, chunk.piece)]]
        BY <1>1, <1>2 DEF MoreArgs
    <1> HIDE DEF more
    <1>7. Assemble(v, chunk) = [v EXCEPT !.calls = more]
        BY <1>5, <1>6
    <1>8. Assemble(v, chunk) = SoundView(text, thoughts, more, images, audio, <<>>, usage, 1)
        BY <1>3, <1>7, CallsReplaced DEF SoundView
    <1> QED
        BY <1>8 DEF more, v, chunk

LEMMA FinishAdds ==
    ASSUME NEW text, NEW thoughts, NEW calls, NEW images, NEW audio, NEW usage,
           NEW roles, NEW reason, NEW counts
    PROVE  Assemble(SoundView(text, thoughts, calls, images, audio, <<>>, usage, roles),
                    Finish(reason, counts))
              = SoundView(text, thoughts, calls, images, audio, <<reason>>, counts, roles)
    BY DEF Assemble, Placed, Finish, SoundView

LEMMA SumsOfPieces ==
    ASSUME NEW text \in Seq(PieceNumber)
    PROVE  /\ text \in Seq(Nat) /\ SumOf(Cjks(text)) \in Nat /\ SumOf(Others(text)) \in Nat
           /\ \A p \in PieceNumber :
                 /\ Append(text, p) \in Seq(PieceNumber)
                 /\ SumOf(Cjks(Append(text, p))) = SumOf(Cjks(text)) + Cjk(p)
                 /\ SumOf(Others(Append(text, p))) = SumOf(Others(text)) + Other(p)
    <1>1. MaxPieces \in Nat /\ PieceNumber \subseteq Nat
        BY ExchangeAssumption DEF PieceNumber
    <1>2. text \in Seq(Nat)
        BY <1>1, SeqMonotonic
    <1>3. \A p \in PieceNumber : Append(text, p) \in Seq(PieceNumber)
        OBVIOUS
    <1> QED
        BY <1>1, <1>2, <1>3, SumNat, WeightOfMore

\* A piece is counted as it is read.
LEMMA PieceCounted ==
    ASSUME NEW text \in Seq(PieceNumber), NEW thoughts \in Seq(PieceNumber),
           NEW p \in PieceNumber
    PROVE  /\ CountChunk(CountOf(text, thoughts), Content(p)) = CountOf(Append(text, p), thoughts)
           /\ CountChunk(CountOf(text, thoughts), Reasoning(p)) = CountOf(text, Append(thoughts, p))
    <1>1. Cjk(p) \in Nat /\ Other(p) \in Nat
        BY ExchangeAssumption DEF PieceNumber, Cjk, Other
    <1>2. \A c : /\ CountChunk(c, Content(p)) = CountPiece(c, p)
                 /\ CountChunk(c, Reasoning(p)) = CountPiece(c, p)
        BY DEF CountChunk, Content, Reasoning
    <1>3. CountPiece(CountOf(text, thoughts), p) =
             [cjk |-> (SumOf(Cjks(text)) + SumOf(Cjks(thoughts))) + Cjk(p),
              other |-> (SumOf(Others(text)) + SumOf(Others(thoughts))) + Other(p)]
        BY DEF CountPiece, CountOf
    <1>4. /\ CountOf(Append(text, p), thoughts) =
               [cjk |-> (SumOf(Cjks(text)) + Cjk(p)) + SumOf(Cjks(thoughts)),
                other |-> (SumOf(Others(text)) + Other(p)) + SumOf(Others(thoughts))]
          /\ CountOf(text, Append(thoughts, p)) =
               [cjk |-> SumOf(Cjks(text)) + (SumOf(Cjks(thoughts)) + Cjk(p)),
                other |-> SumOf(Others(text)) + (SumOf(Others(thoughts)) + Other(p))]
        BY SumsOfPieces DEF CountOf
    <1>5. /\ SumOf(Cjks(text)) \in Nat /\ SumOf(Cjks(thoughts)) \in Nat
          /\ SumOf(Others(text)) \in Nat /\ SumOf(Others(thoughts)) \in Nat
        BY SumsOfPieces
    <1> QED
        BY <1>1, <1>2, <1>3, <1>4, <1>5

\* What the client has read after one more chunk in its place.
LEMMA RoleRead ==
    ASSUME NEW v, NEW c, NEW n, Reads(v, c, 0, n, <<>>)
    PROVE  Reads(Assemble(v, Role), CountChunk(c, Role), 1, n, <<>>)
    <1>1. PICK S, text, thoughts, calls, images, audio, usage :
             /\ text \in Seq(PieceNumber) /\ thoughts \in Seq(PieceNumber)
             /\ calls \in Seq(S) /\ Len(calls) = n /\ audio \in Seq(S)
             /\ v = SoundView(text, thoughts, calls, images, audio, <<>>, usage, 0)
             /\ c = CountOf(text, thoughts)
        BY DEF Reads
    <1>2. Assemble(v, Role) = SoundView(text, thoughts, calls, images, audio, <<>>, usage, 1)
        BY <1>1, ChunkAdds
    <1>3. CountChunk(c, Role) = CountOf(text, thoughts)
        BY <1>1 DEF CountChunk, Role
    <1> QED
        BY <1>1, <1>2, <1>3 DEF Reads

LEMMA ContentRead ==
    ASSUME NEW v, NEW c, NEW n, NEW p \in PieceNumber, Reads(v, c, 1, n, <<>>)
    PROVE  Reads(Assemble(v, Content(p)), CountChunk(c, Content(p)), 1, n, <<>>)
    <1>1. PICK S, text, thoughts, calls, images, audio, usage :
             /\ text \in Seq(PieceNumber) /\ thoughts \in Seq(PieceNumber)
             /\ calls \in Seq(S) /\ Len(calls) = n /\ audio \in Seq(S)
             /\ v = SoundView(text, thoughts, calls, images, audio, <<>>, usage, 1)
             /\ c = CountOf(text, thoughts)
        BY DEF Reads
    <1>2. Assemble(v, Content(p)) =
             SoundView(Append(text, p), thoughts, calls, images, audio, <<>>, usage, 1)
        BY <1>1, ChunkAdds
    <1>3. CountChunk(c, Content(p)) = CountOf(Append(text, p), thoughts)
        BY <1>1, PieceCounted
    <1>4. Append(text, p) \in Seq(PieceNumber)
        BY <1>1, SumsOfPieces
    <1> QED
        BY <1>1, <1>2, <1>3, <1>4 DEF Reads

LEMMA ReasoningRead ==
    ASSUME NEW v, NEW c, NEW n, NEW p \in PieceNumber, Reads(v, c, 1, n, <<>>)
    PROVE  Reads(Assemble(v, Reasoning(p)), CountChunk(c, Reasoning(p)), 1, n, <<>>)
    <1>1. PICK S, text, thoughts, calls, images, audio, usage :
             /\ text \in Seq(PieceNumber) /\ thoughts \in Seq(PieceNumber)
             /\ calls \in Seq(S) /\ Len(calls) = n /\ audio \in Seq(S)
             /\ v = SoundView(text, thoughts, calls, images, audio, <<>>, usage, 1)
             /\ c = CountOf(text, thoughts)
        BY DEF Reads
    <1>2. Assemble(v, Reasoning(p)) =
             SoundView(text, Append(thoughts, p), calls, images, audio, <<>>, usage, 1)
        BY <1>1, ChunkAdds
    <1>3. CountChunk(c, Reasoning(p)) = CountOf(text, Append(thoughts, p))
        BY <1>1, PieceCounted
    <1>4. Append(thoughts, p) \in Seq(PieceNumber)
        BY <1>1, SumsOfPieces
    <1> QED
        BY <1>1, <1>2, <1>3, <1>4 DEF Reads

LEMMA MediaRead ==
    ASSUME NEW v, NEW c, NEW n, NEW kind \in {"images", "audio"}, NEW p, Reads(v, c, 1, n, <<>>)
    PROVE  Reads(Assemble(v, Media(kind, p)), CountChunk(c, Media(kind, p)), 1, n, <<>>)
    <1>1. PICK S, text, thoughts, calls, images, audio, usage :
             /\ text \in Seq(PieceNumber) /\ thoughts \in Seq(PieceNumber)
             /\ calls \in Seq(S) /\ Len(calls) = n /\ audio \in Seq(S)
             /\ v = SoundView(text, thoughts, calls, images, audio, <<>>, usage, 1)
             /\ c = CountOf(text, thoughts)
        BY DEF Reads
    <1>2. \/ Assemble(v, Media(kind, p)) =
                SoundView(text, thoughts, calls, Append(images, p), audio, <<>>, usage, 1)
          \/ Assemble(v, Media(kind, p)) =
                SoundView(text, thoughts, calls, images, Append(audio, p), <<>>, usage, 1)
        BY <1>1, ChunkAdds
    <1>3. CountChunk(c, Media(kind, p)) = CountOf(text, thoughts)
        BY <1>1 DEF CountChunk, Media
    <1>4. calls \in Seq(S \cup {p}) /\ audio \in Seq(S \cup {p})
        BY <1>1, SeqMonotonic
    <1>5. Append(audio, p) \in Seq(S \cup {p})
        BY <1>4
    <1> QED
        BY <1>1, <1>2, <1>3, <1>4, <1>5 DEF Reads

LEMMA CallRead ==
    ASSUME NEW v, NEW c, NEW n \in Nat, NEW id, NEW name, NEW args, Reads(v, c, 1, n, <<>>)
    PROVE  Reads(Assemble(v, CallStart(n, id, name, args)),
                 CountChunk(c, CallStart(n, id, name, args)), 1, n + 1, <<>>)
    <1>1. PICK S, text, thoughts, calls, images, audio, usage :
             /\ text \in Seq(PieceNumber) /\ thoughts \in Seq(PieceNumber)
             /\ calls \in Seq(S) /\ Len(calls) = n /\ audio \in Seq(S)
             /\ v = SoundView(text, thoughts, calls, images, audio, <<>>, usage, 1)
             /\ c = CountOf(text, thoughts)
        BY DEF Reads
    <1> DEFINE new == [id |-> id, name |-> name, args |-> args]
               more == Append(calls, new)
    <1>2. Assemble(v, CallStart(n, id, name, args)) =
             SoundView(text, thoughts, more, images, audio, <<>>, usage, 1)
        BY <1>1, ChunkAdds
    <1>3. CountChunk(c, CallStart(n, id, name, args)) = CountOf(text, thoughts)
        BY <1>1 DEF CountChunk, CallStart
    <1> HIDE DEF new
    <1>5. more \in Seq(S \cup {new}) /\ Len(more) = n + 1 /\ audio \in Seq(S \cup {new})
        <2>1. calls \in Seq(S \cup {new}) /\ audio \in Seq(S \cup {new})
            BY <1>1, SeqMonotonic
        <2> QED
            BY <1>1, <2>1
    <1> QED
        BY <1>1, <1>2, <1>3, <1>5 DEF Reads

LEMMA ArgsRead ==
    ASSUME NEW v, NEW c, NEW n \in Nat, NEW i \in 0..n - 1, NEW p, Reads(v, c, 1, n, <<>>)
    PROVE  Reads(Assemble(v, CallArgs(i, p)), CountChunk(c, CallArgs(i, p)), 1, n, <<>>)
    <1>1. PICK S, text, thoughts, calls, images, audio, usage :
             /\ text \in Seq(PieceNumber) /\ thoughts \in Seq(PieceNumber)
             /\ calls \in Seq(S) /\ Len(calls) = n /\ audio \in Seq(S)
             /\ v = SoundView(text, thoughts, calls, images, audio, <<>>, usage, 1)
             /\ c = CountOf(text, thoughts)
        BY DEF Reads
    <1> DEFINE new == [calls[i + 1] EXCEPT !.args = Append(calls[i + 1].args, p)]
               more == MoreArgs(calls, i, p)
    <1>2. Assemble(v, CallArgs(i, p)) =
             SoundView(text, thoughts, more, images, audio, <<>>, usage, 1)
        <2>1. Len(calls) = n
            BY <1>1
        <2>2. Assemble(SoundView(text, thoughts, calls, images, audio, <<>>, usage, 1),
                       CallArgs(i, p)) =
                 SoundView(text, thoughts, more, images, audio, <<>>, usage, 1)
            BY <2>1, ArgsAdd
        <2> QED
            BY <1>1, <2>2
    <1>3. more = [calls EXCEPT ![i + 1] = new]
        BY DEF MoreArgs
    <1>4. CountChunk(c, CallArgs(i, p)) = CountOf(text, thoughts)
        BY <1>1 DEF CountChunk, CallArgs
    <1> HIDE DEF new, more
    <1>5. more \in Seq(S \cup {new}) /\ Len(more) = n /\ audio \in Seq(S \cup {new})
        <2>1. calls \in Seq(S \cup {new}) /\ audio \in Seq(S \cup {new})
            BY <1>1, SeqMonotonic
        <2> QED
            BY <1>1, <1>3, <2>1
    <1> QED
        BY <1>1, <1>2, <1>4, <1>5 DEF Reads

LEMMA FinishRead ==
    ASSUME NEW v, NEW c, NEW roles, NEW n, NEW reason, NEW counts, Reads(v, c, roles, n, <<>>)
    PROVE  Reads(Assemble(v, Finish(reason, counts)),
                 CountChunk(c, Finish(reason, counts)), roles, n, <<reason>>)
    <1>1. PICK S, text, thoughts, calls, images, audio, usage :
             /\ text \in Seq(PieceNumber) /\ thoughts \in Seq(PieceNumber)
             /\ calls \in Seq(S) /\ Len(calls) = n /\ audio \in Seq(S)
             /\ v = SoundView(text, thoughts, calls, images, audio, <<>>, usage, roles)
             /\ c = CountOf(text, thoughts)
        BY DEF Reads
    <1>2. Assemble(v, Finish(reason, counts)) =
             SoundView(text, thoughts, calls, images, audio, <<reason>>, counts, roles)
        <2>1. Assemble(SoundView(text, thoughts, calls, images, audio, <<>>, usage, roles),
                       Finish(reason, counts)) =
                 SoundView(text, thoughts, calls, images, audio, <<reason>>, counts, roles)
            BY FinishAdds
        <2> QED
            BY <1>1, <2>1
    <1>3. CountChunk(c, Finish(reason, counts)) = CountOf(text, thoughts)
        BY <1>1 DEF CountChunk, Finish
    <1> QED
        BY <1>1, <1>2, <1>3 DEF Reads

\* What the client has put together, as a whole answer would tell it.
Told(content, reasoning, calls, images, audio) ==
    [content |-> content, reasoning |-> reasoning, calls |-> calls, images |-> images,
     audio |-> audio]

ToldBy(v) == Told(v.content, v.reasoning, v.calls, v.images, LastOnly(v.audio))

LEMMA ToldOfSound ==
    ASSUME NEW text, NEW thoughts, NEW calls, NEW images, NEW audio, NEW finish, NEW usage,
           NEW roles
    PROVE  ToldBy(SoundView(text, thoughts, calls, images, audio, finish, usage, roles)) =
              Told(text, thoughts, calls, images, LastOnly(audio))
    <1> DEFINE v == SoundView(text, thoughts, calls, images, audio, finish, usage, roles)
    <1>1. /\ v.content = text /\ v.reasoning = thoughts /\ v.calls = calls /\ v.images = images
          /\ v.audio = audio
        BY DEF SoundView
    <1> HIDE DEF v
    <1>2. ToldBy(v) = Told(text, thoughts, calls, images, LastOnly(audio))
        BY <1>1 DEF ToldBy
    <1> QED
        BY <1>2 DEF v

LEMMA ToldFields ==
    ASSUME NEW text, NEW thoughts, NEW calls, NEW images, NEW audio
    PROVE  LET told == Told(text, thoughts, calls, images, audio)
           IN  /\ told.content = text /\ told.reasoning = thoughts /\ told.calls = calls
               /\ told.images = images /\ told.audio = audio
               /\ \A x : [told EXCEPT !.content = x] = Told(x, thoughts, calls, images, audio)
               /\ \A x : [told EXCEPT !.reasoning = x] = Told(text, x, calls, images, audio)
               /\ \A x : [told EXCEPT !.calls = x] = Told(text, thoughts, x, images, audio)
               /\ \A x : [told EXCEPT !.images = x] = Told(text, thoughts, calls, x, audio)
               /\ \A x : [told EXCEPT !.audio = x] = Told(text, thoughts, calls, images, x)
    BY DEF Told

\* Of a list that has grown, the last is the new one.
LEMMA LastAppended ==
    ASSUME NEW S, NEW list \in Seq(S), NEW x
    PROVE  LastOnly(Append(list, x)) = <<x>>
    <1>1. list \in Seq(S \cup {x})
        BY SeqMonotonic
    <1>2. PICK longer : longer = Append(list, x)
        OBVIOUS
    <1>3. /\ longer \in Seq(S \cup {x}) /\ Len(longer) = Len(list) + 1
          /\ longer[Len(list) + 1] = x /\ longer # <<>>
        BY <1>1, <1>2
    <1> QED
        BY <1>2, <1>3 DEF LastOnly, Last

\* What each chunk adds to that.
LEMMA ChunkTold ==
    ASSUME NEW v, NEW c, NEW n, Reads(v, c, 1, n, <<>>)
    PROVE  LET t == ToldBy(v)
           IN  /\ \A p : ToldBy(Assemble(v, Content(p))) =
                     [t EXCEPT !.content = Append(t.content, p)]
               /\ \A p : ToldBy(Assemble(v, Reasoning(p))) =
                     [t EXCEPT !.reasoning = Append(t.reasoning, p)]
               /\ \A p : ToldBy(Assemble(v, Media("images", p))) =
                     [t EXCEPT !.images = Append(t.images, p)]
               /\ \A p : ToldBy(Assemble(v, Media("audio", p))) = [t EXCEPT !.audio = <<p>>]
               /\ \A id, name, args :
                     ToldBy(Assemble(v, CallStart(n, id, name, args))) =
                     [t EXCEPT !.calls =
                         Append(t.calls, [id |-> id, name |-> name, args |-> args])]
               /\ t.calls = v.calls /\ Len(t.calls) = n
    <1>1. PICK S, text, thoughts, calls, images, audio, usage :
             /\ text \in Seq(PieceNumber) /\ thoughts \in Seq(PieceNumber)
             /\ calls \in Seq(S) /\ Len(calls) = n /\ audio \in Seq(S)
             /\ v = SoundView(text, thoughts, calls, images, audio, <<>>, usage, 1)
             /\ c = CountOf(text, thoughts)
        BY DEF Reads
    <1>0. PICK kept : kept = LastOnly(audio)
        OBVIOUS
    <1> DEFINE t == ToldBy(v)
    <1>2. t = Told(text, thoughts, calls, images, kept) /\ v.calls = calls
        BY <1>0, <1>1, ToldOfSound DEF SoundView
    <1>3. /\ t.content = text /\ t.reasoning = thoughts /\ t.calls = calls
          /\ t.images = images /\ t.audio = kept
          /\ \A x : [t EXCEPT !.content = x] = Told(x, thoughts, calls, images, kept)
          /\ \A x : [t EXCEPT !.reasoning = x] = Told(text, x, calls, images, kept)
          /\ \A x : [t EXCEPT !.calls = x] = Told(text, thoughts, x, images, kept)
          /\ \A x : [t EXCEPT !.images = x] = Told(text, thoughts, calls, x, kept)
          /\ \A x : [t EXCEPT !.audio = x] = Told(text, thoughts, calls, images, x)
        BY <1>2, ToldFields
    <1> HIDE DEF t
    <1>4. ASSUME NEW p
          PROVE  ToldBy(Assemble(v, Content(p))) = [t EXCEPT !.content = Append(t.content, p)]
        <2> DEFINE more == Append(text, p)
        <2>1. Assemble(v, Content(p)) =
                 SoundView(more, thoughts, calls, images, audio, <<>>, usage, 1)
            BY <1>1, ChunkAdds
        <2>2. more = Append(t.content, p)
            BY <1>3
        <2> HIDE DEF more
        <2>3. ToldBy(Assemble(v, Content(p))) = [t EXCEPT !.content = more]
            BY <1>0, <1>3, <2>1, ToldOfSound
        <2> QED
            BY <2>2, <2>3
    <1>5. ASSUME NEW p
          PROVE  ToldBy(Assemble(v, Reasoning(p))) =
                    [t EXCEPT !.reasoning = Append(t.reasoning, p)]
        <2> DEFINE more == Append(thoughts, p)
        <2>1. Assemble(v, Reasoning(p)) =
                 SoundView(text, more, calls, images, audio, <<>>, usage, 1)
            BY <1>1, ChunkAdds
        <2>2. more = Append(t.reasoning, p)
            BY <1>3
        <2> HIDE DEF more
        <2>3. ToldBy(Assemble(v, Reasoning(p))) = [t EXCEPT !.reasoning = more]
            BY <1>0, <1>3, <2>1, ToldOfSound
        <2> QED
            BY <2>2, <2>3
    <1>6. ASSUME NEW p
          PROVE  /\ ToldBy(Assemble(v, Media("images", p))) =
                       [t EXCEPT !.images = Append(t.images, p)]
                 /\ ToldBy(Assemble(v, Media("audio", p))) = [t EXCEPT !.audio = <<p>>]
        <2> DEFINE more == Append(images, p)
        <2>1. /\ Assemble(v, Media("images", p)) =
                    SoundView(text, thoughts, calls, more, audio, <<>>, usage, 1)
              /\ Assemble(v, Media("audio", p)) =
                    SoundView(text, thoughts, calls, images, Append(audio, p), <<>>, usage, 1)
            BY <1>1, ChunkAdds
        <2>2. more = Append(t.images, p)
            BY <1>3
        <2> HIDE DEF more
        <2>4. LastOnly(Append(audio, p)) = <<p>>
            BY <1>1, LastAppended
        <2>3. /\ ToldBy(Assemble(v, Media("images", p))) = [t EXCEPT !.images = more]
              /\ ToldBy(Assemble(v, Media("audio", p))) = [t EXCEPT !.audio = <<p>>]
            BY <1>0, <1>3, <2>1, <2>4, ToldOfSound
        <2> QED
            BY <2>2, <2>3
    <1>7. ASSUME NEW id, NEW name, NEW args
          PROVE  ToldBy(Assemble(v, CallStart(n, id, name, args))) =
                    [t EXCEPT !.calls =
                        Append(t.calls, [id |-> id, name |-> name, args |-> args])]
        <2> DEFINE more == Append(calls, [id |-> id, name |-> name, args |-> args])
        <2>1. Assemble(v, CallStart(n, id, name, args)) =
                 SoundView(text, thoughts, more, images, audio, <<>>, usage, 1)
            BY <1>1, ChunkAdds
        <2>2. more = Append(t.calls, [id |-> id, name |-> name, args |-> args])
            BY <1>3
        <2> HIDE DEF more
        <2>3. ToldBy(Assemble(v, CallStart(n, id, name, args))) = [t EXCEPT !.calls = more]
            BY <1>0, <1>3, <2>1, ToldOfSound
        <2> QED
            BY <2>2, <2>3
    <1>8. t.calls = v.calls /\ Len(t.calls) = n
        BY <1>1, <1>2, <1>3
    <1> QED
        BY <1>4, <1>5, <1>6, <1>7, <1>8 DEF t

LEMMA ArgsTold ==
    ASSUME NEW v, NEW c, NEW n \in Nat, NEW i \in 0..n - 1, NEW p, Reads(v, c, 1, n, <<>>)
    PROVE  LET t == ToldBy(v)
           IN  ToldBy(Assemble(v, CallArgs(i, p))) = [t EXCEPT !.calls = MoreArgs(t.calls, i, p)]
    <1>1. PICK S, text, thoughts, calls, images, audio, usage :
             /\ text \in Seq(PieceNumber) /\ thoughts \in Seq(PieceNumber)
             /\ calls \in Seq(S) /\ Len(calls) = n /\ audio \in Seq(S)
             /\ v = SoundView(text, thoughts, calls, images, audio, <<>>, usage, 1)
             /\ c = CountOf(text, thoughts)
        BY DEF Reads
    <1>0. PICK kept : kept = LastOnly(audio)
        OBVIOUS
    <1> DEFINE t == ToldBy(v)
               more == MoreArgs(calls, i, p)
    <1>2. Len(calls) = n
        BY <1>1
    <1>3. Assemble(SoundView(text, thoughts, calls, images, audio, <<>>, usage, 1), CallArgs(i, p))
             = SoundView(text, thoughts, more, images, audio, <<>>, usage, 1)
        BY <1>2, ArgsAdd
    <1>4. t = Told(text, thoughts, calls, images, kept)
        BY <1>0, <1>1, ToldOfSound
    <1>5. t.calls = calls /\ \A x : [t EXCEPT !.calls = x] = Told(text, thoughts, x, images, kept)
        BY <1>4, ToldFields
    <1>6. more = MoreArgs(t.calls, i, p)
        BY <1>5
    <1> HIDE DEF t, more
    <1>7. ToldBy(Assemble(v, CallArgs(i, p))) = [t EXCEPT !.calls = more]
        BY <1>0, <1>1, <1>3, <1>5, ToldOfSound
    <1> QED
        BY <1>6, <1>7 DEF t

\* The role and the finish tell nothing.
LEMMA RoleTold ==
    ASSUME NEW v, NEW c, NEW n, Reads(v, c, 0, n, <<>>)
    PROVE  ToldBy(Assemble(v, Role)) = ToldBy(v)
    <1>1. PICK S, text, thoughts, calls, images, audio, usage :
             /\ text \in Seq(PieceNumber) /\ thoughts \in Seq(PieceNumber)
             /\ calls \in Seq(S) /\ Len(calls) = n /\ audio \in Seq(S)
             /\ v = SoundView(text, thoughts, calls, images, audio, <<>>, usage, 0)
             /\ c = CountOf(text, thoughts)
        BY DEF Reads
    <1>2. Assemble(v, Role) = SoundView(text, thoughts, calls, images, audio, <<>>, usage, 1)
        BY <1>1, ChunkAdds
    <1> QED
        BY <1>1, <1>2, ToldOfSound

LEMMA FinishTold ==
    ASSUME NEW v, NEW c, NEW roles, NEW n, NEW reason, NEW counts, Reads(v, c, roles, n, <<>>)
    PROVE  LET after == Assemble(v, Finish(reason, counts))
           IN  /\ ToldBy(after) = ToldBy(v)
               /\ after.finish = <<reason>> /\ after.usage = counts
    <1>1. PICK S, text, thoughts, calls, images, audio, usage :
             /\ text \in Seq(PieceNumber) /\ thoughts \in Seq(PieceNumber)
             /\ calls \in Seq(S) /\ Len(calls) = n /\ audio \in Seq(S)
             /\ v = SoundView(text, thoughts, calls, images, audio, <<>>, usage, roles)
             /\ c = CountOf(text, thoughts)
        BY DEF Reads
    <1>0. PICK kept : kept = LastOnly(audio)
        OBVIOUS
    <1>2. Assemble(SoundView(text, thoughts, calls, images, audio, <<>>, usage, roles),
                   Finish(reason, counts)) =
             SoundView(text, thoughts, calls, images, audio, <<reason>>, counts, roles)
        BY FinishAdds
    <1> DEFINE after == SoundView(text, thoughts, calls, images, audio, <<reason>>, counts, roles)
    <1>3. after.finish = <<reason>> /\ after.usage = counts
        BY DEF SoundView
    <1>4. ToldBy(after) = Told(text, thoughts, calls, images, kept)
        BY <1>0, ToldOfSound
    <1> HIDE DEF after
    <1> QED
        BY <1>0, <1>1, <1>2, <1>3, <1>4, ToldOfSound DEF after
-----------------------------------------------------------------------------
(***************************************************************************)
(* What is delivered: nothing, a chunk, and the frame of an event.         *)
(***************************************************************************)
LEMMA NoneTaken ==
    ASSUME NEW v, NEW c
    PROVE  /\ Takings(v, c, <<>>)[Len(<<>>)].view = v
           /\ Takings(v, c, <<>>)[Len(<<>>)].counter = c
    <1>1. Len(<<>>) = 0
        OBVIOUS
    <1>2. Takings(v, c, <<>>)[0] = [view |-> v, counter |-> c]
        BY <1>1, TakingsStep
    <1> QED
        BY <1>1, <1>2

LEMMA OneTaken ==
    ASSUME NEW v, NEW c, NEW chunk
    PROVE  LET all == Takings(v, c, <<chunk>>)[Len(<<chunk>>)]
           IN  /\ all.view = Assemble(v, chunk)
               /\ all.counter = CountChunk(c, chunk)
    <1> DEFINE list == <<chunk>>
    <1>1. Len(list) = 1 /\ list[1] = chunk
        OBVIOUS
    <1> HIDE DEF list
    <1>2. Len(list) \in Nat /\ 1 \in 1..Len(list) /\ 1 - 1 = 0
        BY <1>1
    <1>3. /\ Takings(v, c, list)[0] = [view |-> v, counter |-> c]
          /\ Takings(v, c, list)[1] = AfterChunk(Takings(v, c, list)[1 - 1], list[1])
        BY <1>2, TakingsStep
    <1>4. Takings(v, c, list)[1] = AfterChunk([view |-> v, counter |-> c], chunk)
        BY <1>1, <1>2, <1>3
    <1>5. LET all == Takings(v, c, list)[Len(list)]
          IN  /\ all.view = Assemble(v, chunk)
              /\ all.counter = CountChunk(c, chunk)
        BY <1>1, <1>4 DEF AfterChunk
    <1> QED
        BY <1>5 DEF list

\* What the reader holds after all the lines.
Held(lines) == Readings(lines)[Len(lines)]

LEMMA HeldOfNone == Held(<<>>) = NoFrame
    <1>1. Len(<<>>) = 0
        OBVIOUS
    <1> QED
        BY <1>1, ReadingsStep DEF Held

LEMMA HeldOfMore ==
    ASSUME NEW S, NEW s \in Seq(S), NEW line \in S
    PROVE  s \o <<line>> \in Seq(S) /\ Held(s \o <<line>>) = ReadLine(Held(s), line)
    <1> DEFINE all == s \o <<line>>
               T == {i \in 0..Len(s) : Readings(all)[i] # Readings(s)[i]}
    <1>1. /\ all \in Seq(S) /\ Len(s) \in Nat /\ Len(all) = Len(s) + 1
          /\ all[Len(s) + 1] = line /\ \A i \in 1..Len(s) : all[i] = s[i]
        OBVIOUS
    <1> HIDE DEF all
    <1>2. Len(all) \in Nat
        BY <1>1
    <1>3. /\ Readings(all)[0] = NoFrame
          /\ \A i \in 1..Len(all) : Readings(all)[i] = ReadLine(Readings(all)[i - 1], all[i])
        BY <1>2, ReadingsStep
    <1>4. /\ Readings(s)[0] = NoFrame
          /\ \A i \in 1..Len(s) : Readings(s)[i] = ReadLine(Readings(s)[i - 1], s[i])
        BY <1>1, ReadingsStep
    <1>5. T = {}
        <2> SUFFICES ASSUME T # {} PROVE FALSE
            OBVIOUS
        <2>1. PICK n \in T : \A k \in T : n <= k
            <3>1. T \subseteq Nat
                BY <1>1
            <3> HIDE DEF T
            <3> QED
                BY <3>1, LeastNumber
        <2>2. n # 0
            BY <1>3, <1>4
        <2>3. n \in 1..Len(s) /\ n - 1 \in 0..Len(s) /\ ~(n <= n - 1) /\ n \in 1..Len(all)
            BY <1>1, <2>2
        <2>4. Readings(all)[n - 1] = Readings(s)[n - 1]
            BY <2>1, <2>3
        <2> QED
            BY <1>1, <1>3, <1>4, <2>3, <2>4
    <1>6. Readings(all)[Len(s)] = Held(s)
        <2>1. Len(s) \in 0..Len(s)
            BY <1>1
        <2>2. Len(s) \notin T
            BY <1>5
        <2> QED
            BY <2>1, <2>2 DEF Held
    <1>7. Readings(all)[Len(s) + 1] = ReadLine(Readings(all)[Len(s)], line)
        <2>1. Len(s) + 1 \in 1..Len(all) /\ (Len(s) + 1) - 1 = Len(s)
            BY <1>1
        <2> QED
            BY <1>1, <1>3, <2>1
    <1> QED
        BY <1>1, <1>6, <1>7 DEF Held, all

\* However the upstream frames an event, one event is read, of the type it bears.
LEMMA FrameRead ==
    ASSUME NEW data, NEW named \in BOOLEAN, NEW comment \in BOOLEAN, NEW ended \in BOOLEAN
    PROVE  Events(Frame(data, named, comment, ended)) = <<[event |-> data.type, data |-> data]>>
    <1> DEFINE remark == [kind |-> "comment"]
               naming == [kind |-> "event", name |-> data.type]
               line == [kind |-> "data", payload |-> data]
               blank == [kind |-> "blank"]
               S == {remark, naming, line, blank}
               s1 == IF comment THEN <<remark>> ELSE <<>>
               s2 == s1 \o IF named THEN <<naming>> ELSE <<>>
               s3 == s2 \o <<line>>
               s4 == s3 \o IF ended THEN <<blank>> ELSE <<>>
               name == IF named THEN data.type ELSE ""
               event == [event |-> data.type, data |-> data]
    <1>0. /\ \A s \in Seq(S) : s \o <<>> = s
          /\ remark \in S /\ naming \in S /\ line \in S /\ blank \in S
          /\ remark.kind = "comment" /\ naming.kind = "event" /\ naming.name = data.type
          /\ line.kind = "data" /\ line.payload = data /\ blank.kind = "blank"
        OBVIOUS
    <1>1. s1 \in Seq(S) /\ Held(s1) = NoFrame
        <2>1. CASE ~comment
            BY <2>1, HeldOfNone
        <2>2. CASE comment
            <3>1. <<>> \in Seq(S) /\ <<>> \o <<remark>> = <<remark>>
                OBVIOUS
            <3>2. <<remark>> \in Seq(S) /\ Held(<<remark>>) = ReadLine(Held(<<>>), remark)
                BY <1>0, <3>1, HeldOfMore
            <3> QED
                BY <2>2, <3>2, HeldOfNone DEF ReadLine
        <2> QED
            BY <2>1, <2>2
    <1> HIDE DEF s1, S, remark, naming, line, blank
    <1>2. s2 \in Seq(S) /\ Held(s2) = [event |-> name, buffer |-> <<>>, out |-> <<>>]
        <2>1. CASE ~named
            BY <1>0, <1>1, <2>1 DEF NoFrame
        <2>2. CASE named
            <3>1. s2 \in Seq(S) /\ Held(s2) = ReadLine(Held(s1), naming)
                BY <1>0, <1>1, <2>2, HeldOfMore
            <3>2. Held(s2) = [NoFrame EXCEPT !.event = data.type]
                BY <1>0, <1>1, <3>1 DEF ReadLine
            <3> QED
                BY <2>2, <3>1, <3>2 DEF NoFrame
        <2> QED
            BY <2>1, <2>2
    <1> HIDE DEF s2, name
    <1>3. s3 \in Seq(S) /\ Held(s3) = [event |-> name, buffer |-> <<data>>, out |-> <<>>]
        <2>1. s3 \in Seq(S) /\ Held(s3) = ReadLine(Held(s2), line)
            BY <1>0, <1>2, HeldOfMore
        <2>2. ReadLine([event |-> name, buffer |-> <<>>, out |-> <<>>], line) =
                 [event |-> name, buffer |-> <<data>>, out |-> <<>>]
            BY <1>0 DEF ReadLine
        <2> QED
            BY <1>2, <2>1, <2>2
    <1> HIDE DEF s3
    <1> DEFINE held == Held(s3)
    <1>4. held.event = name /\ held.buffer = <<data>> /\ held.out = <<>> /\ held.buffer # <<>>
        BY <1>3
    <1> HIDE DEF held, event
    <1>5. Flush(held) = <<event>>
        <2>1. Len(<<data>>) = 1 /\ <<data>>[1] = data
            OBVIOUS
        <2>2. (IF name # "" THEN name ELSE data.type) = data.type
            BY DEF name
        <2> QED
            BY <1>4, <2>1, <2>2 DEF Flush, event
    <1>6. <<>> \o <<event>> = <<event>>
        OBVIOUS
    <1>7. Held(s4).out \o Flush(Held(s4)) = <<event>>
        <2>1. CASE ~ended
            <3>1. Held(s4) = held
                BY <1>0, <1>3, <2>1 DEF held
            <3> QED
                BY <1>4, <1>5, <1>6, <3>1
        <2>2. CASE ended
            <3>1. Held(s4) = ReadLine(held, blank)
                BY <1>0, <1>3, <2>2, HeldOfMore DEF held
            <3>2. ReadLine(held, blank) =
                     [event |-> "", buffer |-> <<>>, out |-> held.out \o Flush(held)]
                BY <1>0, <1>4 DEF ReadLine
            <3>3. ReadLine(held, blank) = [event |-> "", buffer |-> <<>>, out |-> <<event>>]
                BY <1>4, <1>5, <1>6, <3>2
            <3> DEFINE last == Held(s4)
            <3> HIDE DEF last
            <3>4. last = [event |-> "", buffer |-> <<>>, out |-> <<event>>]
                BY <3>1, <3>3 DEF last
            <3>5. last.buffer = <<>> /\ last.out = <<event>>
                BY <3>4
            <3>6. Flush(last) = <<>>
                BY <3>5 DEF Flush
            <3>7. <<event>> \o <<>> = <<event>>
                OBVIOUS
            <3> QED
                BY <3>5, <3>6, <3>7 DEF last
        <2> QED
            BY <2>1, <2>2
    <1>8. Frame(data, named, comment, ended) = s4
        <2>1. \A a, b, c, d \in Seq(S) : a \o b \o c \o d = ((a \o b) \o c) \o d
            OBVIOUS
        <2> QED
            BY DEF Frame, s3, s2, s1, remark, naming, line, blank
    <1> HIDE DEF s4
    <1> QED
        BY <1>7, <1>8 DEF Events, Held, event

-----------------------------------------------------------------------------
(***************************************************************************)
(* Anthropic.  What an event makes of the adapter's locals, and the chunks *)
(* it yields.                                                              *)
(***************************************************************************)
LEMMA MessageStartEvent ==
    ASSUME NEW l, NEW data, l.role = FALSE
    PROVE  LET e == AnthropicEvent(l, "message_start", data)
           IN  /\ e.ad.role = TRUE /\ e.ad.index = l.index /\ e.ad.started = l.started
               /\ e.chunks = <<Role>>
    BY DEF AnthropicEvent

LEMMA BlockStartEvent ==
    ASSUME NEW l, NEW data, l.role = TRUE, data.block # "tool_use"
    PROVE  LET e == AnthropicEvent(l, "content_block_start", data)
           IN  /\ e.ad.role = TRUE /\ e.ad.index = l.index /\ e.ad.started = l.started
               /\ e.chunks = <<>>
    BY DEF AnthropicEvent

LEMMA ToolStartEvent ==
    ASSUME NEW l, NEW data, l.role = TRUE, data.block = "tool_use"
    PROVE  LET e == AnthropicEvent(l, "content_block_start", data)
           IN  /\ e.ad.role = TRUE /\ e.ad.index = l.index + 1
               /\ e.ad.started = [l.started EXCEPT ![data.index] = l.index + 1]
               /\ e.chunks = <<CallStart(l.index + 1, data.id, data.name, <<>>)>>
    BY DEF AnthropicEvent

LEMMA BlockDeltaEvent ==
    ASSUME NEW l, NEW data, l.role = TRUE
    PROVE  LET e == AnthropicEvent(l, "content_block_delta", data)
           IN  /\ e.ad.role = TRUE /\ e.ad.index = l.index /\ e.ad.started = l.started
               /\ e.chunks = <<DeltaChunk(l, data)>>
    BY DEF AnthropicEvent

LEMMA MessageDeltaEvent ==
    ASSUME NEW l, NEW data, l.role = TRUE
    PROVE  LET e == AnthropicEvent(l, "message_delta", data)
           IN  /\ e.ad.role = TRUE /\ e.ad.index = l.index /\ e.ad.started = l.started
               /\ e.chunks = <<>>
    BY DEF AnthropicEvent

\* One event is read of a frame, and its chunks are delivered.
LEMMA OneEvent ==
    ASSUME NEW l, NEW x, NEW chunks,
           AnthropicEvent(l, x.event, x.data).chunks = chunks,
           chunks = <<>> \/ \E chunk : chunks = <<chunk>>
    PROVE  LET all == AnthropicRun(l, <<x>>)[Len(<<x>>)]
           IN  /\ all.ad = AnthropicEvent(l, x.event, x.data).ad
               /\ all.chunks = chunks
    <1> DEFINE list == <<x>>
               e == AnthropicEvent(l, x.event, x.data)
    <1>1. Len(list) = 1 /\ list[1] = x
        OBVIOUS
    <1> HIDE DEF list
    <1>2. Len(list) \in Nat /\ 1 \in 1..Len(list) /\ 1 - 1 = 0
        BY <1>1
    <1>3. /\ AnthropicRun(l, list)[0] = [ad |-> l, chunks |-> <<>>]
          /\ AnthropicRun(l, list)[1] = AfterEvent(AnthropicRun(l, list)[1 - 1], list[1])
        BY <1>2, RunStep
    <1>4. AnthropicRun(l, list)[1] = AfterEvent([ad |-> l, chunks |-> <<>>], x)
        BY <1>1, <1>2, <1>3
    <1>5. AfterEvent([ad |-> l, chunks |-> <<>>], x) = [ad |-> e.ad, chunks |-> <<>> \o e.chunks]
        BY DEF AfterEvent
    <1> HIDE DEF e
    <1>6. <<>> \o e.chunks = chunks
        <2>1. <<>> \o <<>> = <<>> /\ \A chunk : <<>> \o <<chunk>> = <<chunk>>
            OBVIOUS
        <2>2. e.chunks = chunks
            BY DEF e
        <2> QED
            BY <2>1, <2>2
    <1>7. LET all == AnthropicRun(l, list)[Len(list)] IN all.ad = e.ad /\ all.chunks = chunks
        BY <1>1, <1>4, <1>5, <1>6
    <1> QED
        BY <1>7 DEF list, e

LEMMA SendsOne ==
    ASSUME NEW data, NEW after, NEW ended \in BOOLEAN, AnthropicSends(data, after, ended)
    PROVE  /\ phase = "streaming" /\ provider = "anthropic"
           /\ answer' = after /\ phase' = (IF ended THEN phase ELSE "eof")
           /\ UNCHANGED <<request, provider, media>>
           /\ LET e == AnthropicEvent(ad, data.type, data)
              IN  /\ e.chunks = <<>> =>
                        ad' = e.ad /\ view' = view /\ counter' = counter
                  /\ \A chunk : e.chunks = <<chunk>> =>
                        /\ ad' = e.ad
                        /\ view' = Assemble(view, chunk)
                        /\ counter' = CountChunk(counter, chunk)
    <1> DEFINE x == [event |-> data.type, data |-> data]
               e == AnthropicEvent(ad, data.type, data)
    <1>1. PICK named, comment \in BOOLEAN :
             LET events == Events(Frame(data, named, comment, ended))
                 all == AnthropicRun(ad, events)[Len(events)]
             IN  ad' = all.ad /\ Deliver(all.chunks)
        BY DEF AnthropicSends
    <1>2. Events(Frame(data, named, comment, ended)) = <<x>>
        BY FrameRead
    <1> DEFINE all == AnthropicRun(ad, <<x>>)[Len(<<x>>)]
    <1>3. ad' = all.ad /\ Deliver(all.chunks)
        BY <1>1, <1>2
    <1>4. x.event = data.type /\ x.data = data
        OBVIOUS
    <1>5. ASSUME NEW chunks, e.chunks = chunks, chunks = <<>> \/ \E chunk : chunks = <<chunk>>
          PROVE  all.ad = e.ad /\ all.chunks = chunks
        <2> HIDE DEF x
        <2> QED
            BY <1>4, <1>5, OneEvent
    <1> HIDE DEF all, e, x
    <1>6. ASSUME e.chunks = <<>>
          PROVE  ad' = e.ad /\ view' = view /\ counter' = counter
        <2>1. all.ad = e.ad /\ all.chunks = <<>>
            BY <1>5, <1>6
        <2>2. Deliver(<<>>)
            BY <1>3, <2>1
        <2> QED
            BY <1>3, <2>1, <2>2, NoneTaken DEF Deliver
    <1>7. ASSUME NEW chunk, e.chunks = <<chunk>>
          PROVE  /\ ad' = e.ad
                 /\ view' = Assemble(view, chunk)
                 /\ counter' = CountChunk(counter, chunk)
        <2>1. all.ad = e.ad /\ all.chunks = <<chunk>>
            BY <1>5, <1>7
        <2>2. Deliver(<<chunk>>)
            BY <1>3, <2>1
        <2> QED
            BY <1>3, <2>1, <2>2, OneTaken DEF Deliver
    <1> QED
        BY <1>6, <1>7 DEF AnthropicSends, Streaming, e

\* The upstream's answer so far.  Only calls bear a name.
NoName == ""
Block == [type : {"text", "thinking", "tool_use"}, id : {<<"toolu", m>> : m \in Nat},
          name : ToolName \cup {NoName}, pieces : Seq(PieceNumber)]

AnthropicAnswer(begun, blocks, stop, input, cached, output, n) ==
    [begun |-> begun, blocks |-> blocks, stop |-> stop,
     usage |-> [input |-> input, cached |-> cached, output |-> output], pieces |-> n]

\* The adapter has said the role once the upstream has begun, its index is that of
\* the last call, and every block that is a call knows which.
AnthropicSound(begun, blocks, n, k, started) ==
    /\ begun \in BOOLEAN /\ blocks \in Seq(Block) /\ Len(blocks) <= MaxBlocks
    /\ n \in 0..MaxPieces /\ k \in Nat
    /\ started \in [0..MaxBlocks - 1 -> Int]
    /\ \A b \in 1..Len(blocks) : blocks[b].type = "tool_use" => started[b - 1] \in 0..k - 1

AnthropicAnswered(begun, blocks, n) ==
    \E stop, input, cached, output :
       answer = AnthropicAnswer(begun, blocks, stop, input, cached, output, n)

AnthropicRead(begun, k, started) ==
    /\ ad.role = begun /\ ad.index = k - 1 /\ ad.started = started
    /\ Reads(view, counter, IF begun THEN 1 ELSE 0, k, <<>>)

AnthropicInv ==
    phase \in {"streaming", "eof"} /\ provider = "anthropic" =>
        \E begun, blocks, n, k, started :
           /\ AnthropicSound(begun, blocks, n, k, started)
           /\ AnthropicAnswered(begun, blocks, n)
           /\ AnthropicRead(begun, k, started)

LEMMA AnswerFields ==
    ASSUME NEW begun, NEW blocks, NEW stop, NEW input, NEW cached, NEW output, NEW n
    PROVE  LET a == AnthropicAnswer(begun, blocks, stop, input, cached, output, n)
           IN  /\ a.begun = begun /\ a.blocks = blocks /\ a.stop = stop /\ a.pieces = n
               /\ a.usage.input = input /\ a.usage.cached = cached /\ a.usage.output = output
    BY DEF AnthropicAnswer

\* An answer with another value of a field.
WithBegun(a, x) == [a EXCEPT !.begun = x]
WithBlocks(a, x) == [a EXCEPT !.blocks = x]
WithStop(a, x) == [a EXCEPT !.stop = x]
WithPieces(a, x) == [a EXCEPT !.pieces = x]
WithInput(a, x) == [a EXCEPT !.usage.input = x]
WithCached(a, x) == [a EXCEPT !.usage.cached = x]
WithOutput(a, x) == [a EXCEPT !.usage.output = x]

LEMMA FieldSet ==
    ASSUME NEW begun, NEW blocks, NEW stop, NEW input, NEW cached, NEW output, NEW n, NEW x
    PROVE  LET a == AnthropicAnswer(begun, blocks, stop, input, cached, output, n)
           IN  /\ WithBegun(a, x) = AnthropicAnswer(x, blocks, stop, input, cached, output, n)
               /\ WithBlocks(a, x) = AnthropicAnswer(begun, x, stop, input, cached, output, n)
               /\ WithStop(a, x) = AnthropicAnswer(begun, blocks, x, input, cached, output, n)
               /\ WithPieces(a, x) = AnthropicAnswer(begun, blocks, stop, input, cached, output, x)
               /\ WithInput(a, x) = AnthropicAnswer(begun, blocks, stop, x, cached, output, n)
               /\ WithCached(a, x) = AnthropicAnswer(begun, blocks, stop, input, x, output, n)
               /\ WithOutput(a, x) = AnthropicAnswer(begun, blocks, stop, input, cached, x, n)
    <1> DEFINE a == AnthropicAnswer(begun, blocks, stop, input, cached, output, n)
               u == [input |-> input, cached |-> cached, output |-> output]
               r(b, l, s, v, m) ==
                  [begun |-> b, blocks |-> l, stop |-> s, usage |-> v, pieces |-> m]
    <1>1. /\ [u EXCEPT !.input = x] = [input |-> x, cached |-> cached, output |-> output]
          /\ [u EXCEPT !.cached = x] = [input |-> input, cached |-> x, output |-> output]
          /\ [u EXCEPT !.output = x] = [input |-> input, cached |-> cached, output |-> x]
        OBVIOUS
    <1>2. a = r(begun, blocks, stop, u, n)
        BY DEF AnthropicAnswer
    <1> HIDE DEF u, a
    <1>3. /\ [a EXCEPT !.begun = x] = r(x, blocks, stop, u, n)
          /\ [a EXCEPT !.blocks = x] = r(begun, x, stop, u, n)
          /\ [a EXCEPT !.stop = x] = r(begun, blocks, x, u, n)
          /\ [a EXCEPT !.pieces = x] = r(begun, blocks, stop, u, x)
        BY <1>2
    <1>4. [a EXCEPT !.usage.input = x] = r(begun, blocks, stop, [u EXCEPT !.input = x], n)
        BY <1>2
    <1>5. [a EXCEPT !.usage.cached = x] = r(begun, blocks, stop, [u EXCEPT !.cached = x], n)
        BY <1>2
    <1>6. [a EXCEPT !.usage.output = x] = r(begun, blocks, stop, [u EXCEPT !.output = x], n)
        BY <1>2
    <1>7. /\ WithBegun(a, x) = AnthropicAnswer(x, blocks, stop, input, cached, output, n)
          /\ WithBlocks(a, x) = AnthropicAnswer(begun, x, stop, input, cached, output, n)
          /\ WithStop(a, x) = AnthropicAnswer(begun, blocks, x, input, cached, output, n)
          /\ WithPieces(a, x) = AnthropicAnswer(begun, blocks, stop, input, cached, output, x)
        BY <1>3 DEF AnthropicAnswer, u, WithBegun, WithBlocks, WithStop, WithPieces
    <1>8. /\ WithInput(a, x) = AnthropicAnswer(begun, blocks, stop, x, cached, output, n)
          /\ WithCached(a, x) = AnthropicAnswer(begun, blocks, stop, input, x, output, n)
          /\ WithOutput(a, x) = AnthropicAnswer(begun, blocks, stop, input, cached, x, n)
        BY <1>1, <1>4, <1>5, <1>6 DEF AnthropicAnswer, WithInput, WithCached, WithOutput
    <1> QED
        BY <1>7, <1>8 DEF a

\* What the upstream adds to its answer.
MorePieces(blocks, b, p) ==
    [blocks EXCEPT ![b] = [blocks[b] EXCEPT !.pieces = Append(blocks[b].pieces, p)]]

Begins(a, t, i, c) == [a EXCEPT !.begun = t, !.usage.input = i, !.usage.cached = c]
GainsBlock(a, block) == [a EXCEPT !.blocks = Append(@, block)]
GainsPiece(a, b, p) == [a EXCEPT !.blocks[b].pieces = Append(@, p), !.pieces = p]
Stops(a, s, i) ==
    [a EXCEPT !.stop = s, !.usage.output = 1, !.usage.input = IF i = -1 THEN @ ELSE i]

LEMMA AnswerBegins ==
    ASSUME NEW begun, NEW blocks, NEW stop, NEW input, NEW cached, NEW output, NEW n,
           NEW t, NEW i, NEW c
    PROVE  Begins(AnthropicAnswer(begun, blocks, stop, input, cached, output, n), t, i, c) =
              AnthropicAnswer(t, blocks, stop, i, c, output, n)
    <1> DEFINE a == AnthropicAnswer(begun, blocks, stop, input, cached, output, n)
    <1>1. a = AnthropicAnswer(begun, blocks, stop, input, cached, output, n)
        OBVIOUS
    <1> HIDE DEF a
    <1>2. Begins(a, t, i, c) = WithCached(WithInput(WithBegun(a, t), i), c)
        BY DEF Begins, WithCached, WithInput, WithBegun
    <1>3. WithBegun(a, t) = AnthropicAnswer(t, blocks, stop, input, cached, output, n)
        BY <1>1, FieldSet
    <1>4. WithInput(WithBegun(a, t), i) = AnthropicAnswer(t, blocks, stop, i, cached, output, n)
        BY <1>3, FieldSet
    <1>5. WithCached(WithInput(WithBegun(a, t), i), c) =
                AnthropicAnswer(t, blocks, stop, i, c, output, n)
        BY <1>4, FieldSet
    <1> QED
        BY <1>2, <1>5 DEF a

LEMMA AnswerGainsBlock ==
    ASSUME NEW begun, NEW blocks, NEW stop, NEW input, NEW cached, NEW output, NEW n, NEW block
    PROVE  GainsBlock(AnthropicAnswer(begun, blocks, stop, input, cached, output, n), block) =
              AnthropicAnswer(begun, Append(blocks, block), stop, input, cached, output, n)
    <1> DEFINE a == AnthropicAnswer(begun, blocks, stop, input, cached, output, n)
    <1>1. a = AnthropicAnswer(begun, blocks, stop, input, cached, output, n) /\ a.blocks = blocks
        BY DEF AnthropicAnswer
    <1> HIDE DEF a
    <1>2. GainsBlock(a, block) = WithBlocks(a, Append(blocks, block))
        BY <1>1 DEF GainsBlock, WithBlocks
    <1>3. GainsBlock(a, block) =
             AnthropicAnswer(begun, Append(blocks, block), stop, input, cached, output, n)
        BY <1>1, <1>2, FieldSet
    <1> QED
        BY <1>3 DEF a

LEMMA AnswerGainsPiece ==
    ASSUME NEW begun, NEW blocks, NEW stop, NEW input, NEW cached, NEW output, NEW n,
           NEW b, NEW p
    PROVE  GainsPiece(AnthropicAnswer(begun, blocks, stop, input, cached, output, n), b, p) =
              AnthropicAnswer(begun, MorePieces(blocks, b, p), stop, input, cached, output, p)
    <1> DEFINE a == AnthropicAnswer(begun, blocks, stop, input, cached, output, n)
    <1>1. a = AnthropicAnswer(begun, blocks, stop, input, cached, output, n) /\ a.blocks = blocks
        BY DEF AnthropicAnswer
    <1> HIDE DEF a
    <1>2. GainsPiece(a, b, p) = WithPieces(WithBlocks(a, MorePieces(a.blocks, b, p)), p)
        BY DEF GainsPiece, WithPieces, WithBlocks, MorePieces
    <1>3. WithBlocks(a, MorePieces(blocks, b, p)) =
             AnthropicAnswer(begun, MorePieces(blocks, b, p), stop, input, cached, output, n)
        BY <1>1, FieldSet
    <1>4. GainsPiece(a, b, p) =
             AnthropicAnswer(begun, MorePieces(blocks, b, p), stop, input, cached, output, p)
        BY <1>1, <1>2, <1>3, FieldSet
    <1> QED
        BY <1>4 DEF a

LEMMA AnswerStops ==
    ASSUME NEW begun, NEW blocks, NEW stop, NEW input, NEW cached, NEW output, NEW n,
           NEW s, NEW i
    PROVE  Stops(AnthropicAnswer(begun, blocks, stop, input, cached, output, n), s, i) =
              AnthropicAnswer(begun, blocks, s, IF i = -1 THEN input ELSE i, cached, 1, n)
    <1> DEFINE a == AnthropicAnswer(begun, blocks, stop, input, cached, output, n)
               a2 == WithOutput(WithStop(a, s), 1)
    <1>1. a = AnthropicAnswer(begun, blocks, stop, input, cached, output, n)
        OBVIOUS
    <1> HIDE DEF a
    <1>2. Stops(a, s, i) = WithInput(a2, IF i = -1 THEN a2.usage.input ELSE i)
        BY DEF Stops, WithInput, WithOutput, WithStop
    <1>3. WithStop(a, s) = AnthropicAnswer(begun, blocks, s, input, cached, output, n)
        BY <1>1, FieldSet
    <1>4. a2 = AnthropicAnswer(begun, blocks, s, input, cached, 1, n)
        BY <1>3, FieldSet
    <1> HIDE DEF a2
    <1>5. \A j : WithInput(a2, j) = AnthropicAnswer(begun, blocks, s, j, cached, 1, n)
        BY <1>4, FieldSet
    <1>6. a2.usage.input = input
        BY <1>4, AnswerFields
    <1>7. Stops(a, s, i) =
             AnthropicAnswer(begun, blocks, s, IF i = -1 THEN input ELSE i, cached, 1, n)
        BY <1>2, <1>5, <1>6
    <1> QED
        BY <1>7 DEF a

LEMMA BlocksGrow ==
    ASSUME NEW blocks \in Seq(Block), NEW block \in Block
    PROVE  /\ Append(blocks, block) \in Seq(Block)
           /\ Len(Append(blocks, block)) = Len(blocks) + 1
           /\ Append(blocks, block)[Len(blocks) + 1] = block
           /\ \A b \in 1..Len(blocks) : Append(blocks, block)[b] = blocks[b]
    OBVIOUS

LEMMA PiecesGrow ==
    ASSUME NEW blocks \in Seq(Block), NEW b \in 1..Len(blocks), NEW p \in PieceNumber
    PROVE  LET more == MorePieces(blocks, b, p)
           IN  /\ more \in Seq(Block) /\ Len(more) = Len(blocks)
               /\ \A c \in 1..Len(blocks) : more[c].type = blocks[c].type
    <1> DEFINE x == blocks[b]
               new == [x EXCEPT !.pieces = Append(x.pieces, p)]
    <1>1. x \in Block
        OBVIOUS
    <1> HIDE DEF x
    <1>2. x.pieces \in Seq(PieceNumber)
        BY <1>1 DEF Block
    <1>3. new \in Block /\ new.type = x.type
        <2> DEFINE pieces == Append(x.pieces, p)
        <2>1. pieces \in Seq(PieceNumber)
            BY <1>2
        <2> HIDE DEF pieces
        <2>2. [x EXCEPT !.pieces = pieces] \in Block
            BY <1>1, <2>1 DEF Block
        <2>3. [x EXCEPT !.pieces = pieces].type = x.type
            BY <1>1 DEF Block
        <2> QED
            BY <2>2, <2>3 DEF pieces
    <1>4. MorePieces(blocks, b, p) = [blocks EXCEPT ![b] = new]
        BY DEF MorePieces, x
    <1> HIDE DEF new
    <1>5. LET more == [blocks EXCEPT ![b] = new]
          IN  /\ more \in Seq(Block) /\ Len(more) = Len(blocks)
              /\ \A c \in 1..Len(blocks) : more[c].type = blocks[c].type
        BY <1>3 DEF x
    <1> QED
        BY <1>4, <1>5

\* What a list of blocks can tell: calls bear the ids of their blocks, and there are no
\* media.
CallTold == [id : {<<"toolu", m>> : m \in Nat}, name : ToolName \cup {NoName},
             args : Seq(PieceNumber)]

Tellings(t, text, thoughts, calls) ==
    /\ text \in Seq(PieceNumber) /\ thoughts \in Seq(PieceNumber) /\ calls \in Seq(CallTold)
    /\ t = Told(text, thoughts, calls, <<>>, NoAudio)

CallMade(block) == [id |-> block.id, name |-> block.name, args |-> block.pieces]

LEMMA BlockAdds ==
    ASSUME NEW text, NEW thoughts, NEW calls, NEW block
    PROVE  LET t == Told(text, thoughts, calls, <<>>, NoAudio)
           IN  /\ block.type = "text" =>
                     AfterBlock(t, block) =
                        Told(text \o block.pieces, thoughts, calls, <<>>, NoAudio)
               /\ block.type = "thinking" =>
                     AfterBlock(t, block) =
                        Told(text, thoughts \o block.pieces, calls, <<>>, NoAudio)
               /\ block.type = "tool_use" =>
                     AfterBlock(t, block) =
                        Told(text, thoughts, Append(calls, CallMade(block)), <<>>, NoAudio)
    <1> DEFINE t == Told(text, thoughts, calls, <<>>, NoAudio)
    <1>1. /\ t.content = text /\ t.reasoning = thoughts /\ t.calls = calls
          /\ \A x : [t EXCEPT !.content = x] = Told(x, thoughts, calls, <<>>, NoAudio)
          /\ \A x : [t EXCEPT !.reasoning = x] = Told(text, x, calls, <<>>, NoAudio)
          /\ \A x : [t EXCEPT !.calls = x] = Told(text, thoughts, x, <<>>, NoAudio)
        BY ToldFields
    <1> HIDE DEF t
    <1>2. ASSUME block.type = "text"
          PROVE  AfterBlock(t, block) =
                    Told(text \o block.pieces, thoughts, calls, <<>>, NoAudio)
        <2> DEFINE x == t.content \o block.pieces
        <2>1. AfterBlock(t, block) = [t EXCEPT !.content = x]
            BY <1>2 DEF AfterBlock
        <2>2. x = text \o block.pieces
            BY <1>1
        <2> HIDE DEF x
        <2>3. AfterBlock(t, block) = Told(x, thoughts, calls, <<>>, NoAudio)
            BY <1>1, <2>1
        <2> QED
            BY <2>2, <2>3
    <1>3. ASSUME block.type = "thinking"
          PROVE  AfterBlock(t, block) =
                    Told(text, thoughts \o block.pieces, calls, <<>>, NoAudio)
        <2> DEFINE x == t.reasoning \o block.pieces
        <2>1. AfterBlock(t, block) = [t EXCEPT !.reasoning = x]
            BY <1>3 DEF AfterBlock
        <2>2. x = thoughts \o block.pieces
            BY <1>1
        <2> HIDE DEF x
        <2>3. AfterBlock(t, block) = Told(text, x, calls, <<>>, NoAudio)
            BY <1>1, <2>1
        <2> QED
            BY <2>2, <2>3
    <1>4. ASSUME block.type = "tool_use"
          PROVE  AfterBlock(t, block) =
                    Told(text, thoughts, Append(calls, CallMade(block)), <<>>, NoAudio)
        <2> DEFINE x == Append(t.calls, CallMade(block))
        <2>1. AfterBlock(t, block) = [t EXCEPT !.calls = x]
            BY <1>4 DEF AfterBlock, CallMade
        <2>2. x = Append(calls, CallMade(block))
            BY <1>1
        <2> HIDE DEF x
        <2>3. AfterBlock(t, block) = Told(text, thoughts, x, <<>>, NoAudio)
            BY <1>1, <2>1
        <2> QED
            BY <2>2, <2>3
    <1> QED
        BY <1>2, <1>3, <1>4 DEF t

LEMMA BlockTypes ==
    ASSUME NEW block \in Block
    PROVE  /\ block.type \in {"text", "thinking", "tool_use"} /\ block.pieces \in Seq(PieceNumber)
           /\ CallMade(block) \in CallTold
    <1>1. /\ block.type \in {"text", "thinking", "tool_use"}
          /\ block.id \in {<<"toolu", m>> : m \in Nat}
          /\ block.name \in ToolName \cup {NoName} /\ block.pieces \in Seq(PieceNumber)
        BY DEF Block
    <1>2. PICK id, name, pieces : id = block.id /\ name = block.name /\ pieces = block.pieces
        OBVIOUS
    <1>3. CallMade(block) = [id |-> id, name |-> name, args |-> pieces]
        BY <1>2 DEF CallMade
    <1>4. CallMade(block) \in CallTold
        BY <1>1, <1>2, <1>3 DEF CallTold
    <1> QED
        BY <1>1, <1>4

LEMMA BlockTyped ==
    ASSUME NEW t, NEW text, NEW thoughts, NEW calls, Tellings(t, text, thoughts, calls),
           NEW block \in Block
    PROVE  \E x, y, z :
              /\ Tellings(AfterBlock(t, block), x, y, z)
              /\ block.type # "tool_use" => z = calls
              /\ block.type = "tool_use" => z = Append(calls, CallMade(block))
    <1>1. /\ block.type \in {"text", "thinking", "tool_use"} /\ block.pieces \in Seq(PieceNumber)
          /\ CallMade(block) \in CallTold
        BY BlockTypes
    <1>2. /\ text \in Seq(PieceNumber) /\ thoughts \in Seq(PieceNumber) /\ calls \in Seq(CallTold)
          /\ t = Told(text, thoughts, calls, <<>>, NoAudio)
        BY DEF Tellings
    <1>3. /\ text \o block.pieces \in Seq(PieceNumber)
          /\ thoughts \o block.pieces \in Seq(PieceNumber)
          /\ Append(calls, CallMade(block)) \in Seq(CallTold)
        BY <1>1, <1>2
    <1>4. CASE block.type = "text"
        <2>1. AfterBlock(t, block) = Told(text \o block.pieces, thoughts, calls, <<>>, NoAudio)
            BY <1>2, <1>4, BlockAdds
        <2>2. Tellings(AfterBlock(t, block), text \o block.pieces, thoughts, calls)
            BY <1>2, <1>3, <2>1 DEF Tellings
        <2> QED
            BY <1>4, <2>2
    <1>5. CASE block.type = "thinking"
        <2>1. AfterBlock(t, block) = Told(text, thoughts \o block.pieces, calls, <<>>, NoAudio)
            BY <1>2, <1>5, BlockAdds
        <2>2. Tellings(AfterBlock(t, block), text, thoughts \o block.pieces, calls)
            BY <1>2, <1>3, <2>1 DEF Tellings
        <2> QED
            BY <1>5, <2>2
    <1>6. CASE block.type = "tool_use"
        <2>1. AfterBlock(t, block) =
                 Told(text, thoughts, Append(calls, CallMade(block)), <<>>, NoAudio)
            BY <1>2, <1>6, BlockAdds
        <2>2. Tellings(AfterBlock(t, block), text, thoughts, Append(calls, CallMade(block)))
            BY <1>2, <1>3, <2>1 DEF Tellings
        <2> QED
            BY <1>6, <2>2
    <1> QED
        BY <1>1, <1>4, <1>5, <1>6

LEMMA BlocksTyped ==
    ASSUME NEW blocks \in Seq(Block)
    PROVE  \A i \in 0..Len(blocks) :
              \E text, thoughts, calls : Tellings(BlocksTold(blocks)[i], text, thoughts, calls)
    <1> DEFINE f == BlocksTold(blocks)
               Good(i) == \E text, thoughts, calls : Tellings(f[i], text, thoughts, calls)
               T == {i \in 0..Len(blocks) : ~Good(i)}
    <1>1. Len(blocks) \in Nat /\ \A i \in 1..Len(blocks) : blocks[i] \in Block
        OBVIOUS
    <1>2. f[0] = NothingTold /\ \A i \in 1..Len(blocks) : f[i] = AfterBlock(f[i - 1], blocks[i])
        BY <1>1, BlocksStep
    <1> HIDE DEF f
    <1>3. Good(0)
        <2>1. f[0] = Told(<<>>, <<>>, <<>>, <<>>, NoAudio)
            BY <1>2 DEF NothingTold, Told
        <2>2. <<>> \in Seq(PieceNumber) /\ <<>> \in Seq(CallTold)
            OBVIOUS
        <2>3. Tellings(f[0], <<>>, <<>>, <<>>)
            BY <2>1, <2>2 DEF Tellings
        <2> QED
            BY <2>3
    <1>4. ASSUME NEW i \in 1..Len(blocks), Good(i - 1) PROVE Good(i)
        BY <1>1, <1>2, <1>4, BlockTyped
    <1> HIDE DEF Good
    <1>5. T = {}
        <2> SUFFICES ASSUME T # {} PROVE FALSE
            OBVIOUS
        <2>1. PICK i \in T : \A j \in T : i <= j
            <3>1. T \subseteq Nat
                BY <1>1
            <3> HIDE DEF T
            <3> QED
                BY <3>1, LeastNumber
        <2>2. i # 0
            BY <1>3
        <2>3. i \in 1..Len(blocks) /\ i - 1 \in 0..Len(blocks) /\ ~(i <= i - 1)
            BY <1>1, <2>2
        <2>4. Good(i - 1)
            BY <2>1, <2>3
        <2> QED
            BY <1>4, <2>3, <2>4
    <1> QED
        BY <1>5 DEF Good, f

\* A piece more of the text, of the reasoning, or of the arguments of call h.
WithPiece(t, sort, h, p) ==
    CASE sort = "text"     -> [t EXCEPT !.content = Append(t.content, p)]
      [] sort = "thinking" -> [t EXCEPT !.reasoning = Append(t.reasoning, p)]
      [] sort = "tool_use" -> [t EXCEPT !.calls = MoreArgs(t.calls, h, p)]

LEMMA PieceAdds ==
    ASSUME NEW text, NEW thoughts, NEW calls, NEW h, NEW p
    PROVE  LET t == Told(text, thoughts, calls, <<>>, NoAudio)
           IN  /\ WithPiece(t, "text", h, p) =
                     Told(Append(text, p), thoughts, calls, <<>>, NoAudio)
               /\ WithPiece(t, "thinking", h, p) =
                     Told(text, Append(thoughts, p), calls, <<>>, NoAudio)
               /\ WithPiece(t, "tool_use", h, p) =
                     Told(text, thoughts, MoreArgs(calls, h, p), <<>>, NoAudio)
    <1> DEFINE t == Told(text, thoughts, calls, <<>>, NoAudio)
    <1>1. /\ t.content = text /\ t.reasoning = thoughts /\ t.calls = calls
          /\ \A x : [t EXCEPT !.content = x] = Told(x, thoughts, calls, <<>>, NoAudio)
          /\ \A x : [t EXCEPT !.reasoning = x] = Told(text, x, calls, <<>>, NoAudio)
          /\ \A x : [t EXCEPT !.calls = x] = Told(text, thoughts, x, <<>>, NoAudio)
        BY ToldFields
    <1> HIDE DEF t
    <1> DEFINE x == Append(t.content, p)
               y == Append(t.reasoning, p)
               z == MoreArgs(t.calls, h, p)
    <1>2. /\ WithPiece(t, "text", h, p) = [t EXCEPT !.content = x]
          /\ WithPiece(t, "thinking", h, p) = [t EXCEPT !.reasoning = y]
          /\ WithPiece(t, "tool_use", h, p) = [t EXCEPT !.calls = z]
        BY DEF WithPiece
    <1>3. x = Append(text, p) /\ y = Append(thoughts, p) /\ z = MoreArgs(calls, h, p)
        BY <1>1
    <1> HIDE DEF x, y, z
    <1>4. /\ WithPiece(t, "text", h, p) = Told(x, thoughts, calls, <<>>, NoAudio)
          /\ WithPiece(t, "thinking", h, p) = Told(text, y, calls, <<>>, NoAudio)
          /\ WithPiece(t, "tool_use", h, p) = Told(text, thoughts, z, <<>>, NoAudio)
        BY <1>1, <1>2
    <1> QED
        BY <1>3, <1>4 DEF t

\* Later blocks leave the calls begun before them in their places.
LEMMA ArgsBefore ==
    ASSUME NEW calls \in Seq(CallTold), NEW h \in 0..Len(calls) - 1, NEW p \in PieceNumber,
           NEW new \in CallTold
    PROVE  /\ MoreArgs(calls, h, p) \in Seq(CallTold) /\ Len(MoreArgs(calls, h, p)) = Len(calls)
           /\ Append(MoreArgs(calls, h, p), new) = MoreArgs(Append(calls, new), h, p)
    <1> DEFINE x == calls[h + 1]
               y == [x EXCEPT !.args = Append(x.args, p)]
    <1>1. Len(calls) \in Nat /\ h + 1 \in 1..Len(calls) /\ x \in CallTold
        OBVIOUS
    <1> HIDE DEF x
    <1>2. y \in CallTold
        <2>1. x.args \in Seq(PieceNumber)
            BY <1>1 DEF CallTold
        <2> DEFINE args == Append(x.args, p)
        <2>2. args \in Seq(PieceNumber)
            BY <2>1
        <2> HIDE DEF args
        <2>3. [x EXCEPT !.args = args] \in CallTold
            BY <1>1, <2>2 DEF CallTold
        <2> QED
            BY <2>3 DEF args
    <1>3. MoreArgs(calls, h, p) = [calls EXCEPT ![h + 1] = y]
        BY DEF MoreArgs, x
    <1>4. Append(calls, new)[h + 1] = x
        BY <1>1 DEF x
    <1>5. MoreArgs(Append(calls, new), h, p) = [Append(calls, new) EXCEPT ![h + 1] = y]
        BY <1>4 DEF MoreArgs
    <1> HIDE DEF y
    <1>6. PICK j : j = h + 1 /\ j \in 1..Len(calls)
        BY <1>1
    <1>7. [calls EXCEPT ![j] = y] \in Seq(CallTold) /\ Len([calls EXCEPT ![j] = y]) = Len(calls)
        BY <1>2, <1>6
    <1>8. Append([calls EXCEPT ![j] = y], new) = [Append(calls, new) EXCEPT ![j] = y]
        <2> DEFINE a == Append([calls EXCEPT ![j] = y], new)
                   b == [Append(calls, new) EXCEPT ![j] = y]
        <2>1. /\ a \in Seq(CallTold) /\ Len(a) = Len(calls) + 1
              /\ \A i \in 1..Len(calls) : a[i] = IF i = j THEN y ELSE calls[i]
              /\ a[Len(calls) + 1] = new
            BY <1>1, <1>6, <1>7
        <2>2. /\ b \in Seq(CallTold) /\ Len(b) = Len(calls) + 1
              /\ \A i \in 1..Len(calls) : b[i] = IF i = j THEN y ELSE calls[i]
              /\ b[Len(calls) + 1] = new
            <3> DEFINE all == Append(calls, new)
            <3>1. /\ all \in Seq(CallTold) /\ Len(all) = Len(calls) + 1
                  /\ \A i \in 1..Len(calls) : all[i] = calls[i]
                  /\ all[Len(calls) + 1] = new
                BY AppendProperties
            <3> HIDE DEF all
            <3>2. j \in 1..Len(all) /\ j # Len(calls) + 1
                BY <1>1, <1>6, <3>1
            <3>3. /\ [all EXCEPT ![j] = y] \in Seq(CallTold)
                  /\ Len([all EXCEPT ![j] = y]) = Len(all)
                  /\ \A i \in 1..Len(all) : [all EXCEPT ![j] = y][i] = IF i = j THEN y ELSE all[i]
                BY <1>2, <3>1, <3>2, ExceptSeq
            <3> DEFINE put == [all EXCEPT ![j] = y]
            <3>4. b = put
                BY DEF all
            <3> HIDE DEF put, b
            <3> QED
                BY <1>1, <3>1, <3>2, <3>3, <3>4 DEF put
        <2> HIDE DEF a, b
        <2>3. \A i \in 1..Len(a) : a[i] = b[i]
            BY <1>1, <2>1, <2>2
        <2>4. a = b
            BY <2>1, <2>2, <2>3, SeqEqual
        <2> QED
            BY <2>4 DEF a, b
    <1> QED
        BY <1>3, <1>5, <1>6, <1>7, <1>8

LEMMA LaterBlock ==
    ASSUME NEW t, NEW text, NEW thoughts, NEW calls, Tellings(t, text, thoughts, calls),
           NEW block \in Block, NEW sort \in {"text", "thinking", "tool_use"}, NEW h,
           NEW p \in PieceNumber,
           block.type # sort \/ sort = "tool_use",
           sort = "tool_use" => h \in 0..Len(calls) - 1
    PROVE  AfterBlock(WithPiece(t, sort, h, p), block) =
              WithPiece(AfterBlock(t, block), sort, h, p)
    <1>1. /\ text \in Seq(PieceNumber) /\ thoughts \in Seq(PieceNumber) /\ calls \in Seq(CallTold)
          /\ t = Told(text, thoughts, calls, <<>>, NoAudio)
        BY DEF Tellings
    <1>2. /\ block.type \in {"text", "thinking", "tool_use"} /\ block.pieces \in Seq(PieceNumber)
          /\ CallMade(block) \in CallTold
        BY BlockTypes
    <1>3. CASE sort = "text"
        <2>1. WithPiece(t, sort, h, p) = Told(Append(text, p), thoughts, calls, <<>>, NoAudio)
            BY <1>1, <1>3, PieceAdds
        <2>2. CASE block.type = "thinking"
            <3>1. AfterBlock(t, block) = Told(text, thoughts \o block.pieces, calls, <<>>, NoAudio)
                BY <1>1, <2>2, BlockAdds
            <3>2. WithPiece(AfterBlock(t, block), sort, h, p) =
                     Told(Append(text, p), thoughts \o block.pieces, calls, <<>>, NoAudio)
                BY <1>3, <3>1, PieceAdds
            <3> QED
                BY <2>1, <2>2, <3>2, BlockAdds
        <2>3. CASE block.type = "tool_use"
            <3> DEFINE more == Append(calls, CallMade(block))
            <3>1. AfterBlock(t, block) = Told(text, thoughts, more, <<>>, NoAudio)
                BY <1>1, <2>3, BlockAdds
            <3>2. AfterBlock(WithPiece(t, sort, h, p), block) =
                     Told(Append(text, p), thoughts, more, <<>>, NoAudio)
                BY <2>1, <2>3, BlockAdds
            <3> HIDE DEF more
            <3>3. WithPiece(AfterBlock(t, block), sort, h, p) =
                     Told(Append(text, p), thoughts, more, <<>>, NoAudio)
                BY <1>3, <3>1, PieceAdds
            <3> QED
                BY <3>2, <3>3
        <2> QED
            BY <1>2, <1>3, <2>2, <2>3
    <1>4. CASE sort = "thinking"
        <2>1. WithPiece(t, sort, h, p) = Told(text, Append(thoughts, p), calls, <<>>, NoAudio)
            BY <1>1, <1>4, PieceAdds
        <2>2. CASE block.type = "text"
            <3>1. AfterBlock(t, block) = Told(text \o block.pieces, thoughts, calls, <<>>, NoAudio)
                BY <1>1, <2>2, BlockAdds
            <3>2. WithPiece(AfterBlock(t, block), sort, h, p) =
                     Told(text \o block.pieces, Append(thoughts, p), calls, <<>>, NoAudio)
                BY <1>4, <3>1, PieceAdds
            <3> QED
                BY <2>1, <2>2, <3>2, BlockAdds
        <2>3. CASE block.type = "tool_use"
            <3> DEFINE more == Append(calls, CallMade(block))
            <3>1. AfterBlock(t, block) = Told(text, thoughts, more, <<>>, NoAudio)
                BY <1>1, <2>3, BlockAdds
            <3>2. AfterBlock(WithPiece(t, sort, h, p), block) =
                     Told(text, Append(thoughts, p), more, <<>>, NoAudio)
                BY <2>1, <2>3, BlockAdds
            <3> HIDE DEF more
            <3>3. WithPiece(AfterBlock(t, block), sort, h, p) =
                     Told(text, Append(thoughts, p), more, <<>>, NoAudio)
                BY <1>4, <3>1, PieceAdds
            <3> QED
                BY <3>2, <3>3
        <2> QED
            BY <1>2, <1>4, <2>2, <2>3
    <1>5. CASE sort = "tool_use"
        <2> DEFINE args == MoreArgs(calls, h, p)
        <2>1. WithPiece(t, sort, h, p) = Told(text, thoughts, args, <<>>, NoAudio)
            BY <1>1, <1>5, PieceAdds
        <2>2. CASE block.type = "text"
            <3>1. AfterBlock(t, block) = Told(text \o block.pieces, thoughts, calls, <<>>, NoAudio)
                BY <1>1, <2>2, BlockAdds
            <3>2. WithPiece(AfterBlock(t, block), sort, h, p) =
                     Told(text \o block.pieces, thoughts, args, <<>>, NoAudio)
                BY <1>5, <3>1, PieceAdds
            <3> HIDE DEF args
            <3> QED
                BY <2>1, <2>2, <3>2, BlockAdds
        <2>3. CASE block.type = "thinking"
            <3>1. AfterBlock(t, block) = Told(text, thoughts \o block.pieces, calls, <<>>, NoAudio)
                BY <1>1, <2>3, BlockAdds
            <3>2. WithPiece(AfterBlock(t, block), sort, h, p) =
                     Told(text, thoughts \o block.pieces, args, <<>>, NoAudio)
                BY <1>5, <3>1, PieceAdds
            <3> HIDE DEF args
            <3> QED
                BY <2>1, <2>3, <3>2, BlockAdds
        <2>4. CASE block.type = "tool_use"
            <3> DEFINE more == Append(calls, CallMade(block))
            <3>1. AfterBlock(t, block) = Told(text, thoughts, more, <<>>, NoAudio)
                BY <1>1, <2>4, BlockAdds
            <3>2. Append(args, CallMade(block)) = MoreArgs(more, h, p)
                BY <1>1, <1>2, <1>5, ArgsBefore
            <3> HIDE DEF more, args
            <3>3. WithPiece(AfterBlock(t, block), sort, h, p) =
                     Told(text, thoughts, MoreArgs(more, h, p), <<>>, NoAudio)
                BY <1>5, <3>1, PieceAdds
            <3>4. AfterBlock(WithPiece(t, sort, h, p), block) =
                     Told(text, thoughts, Append(args, CallMade(block)), <<>>, NoAudio)
                BY <2>1, <2>4, BlockAdds
            <3> QED
                BY <3>2, <3>3, <3>4
        <2> QED
            BY <1>2, <2>2, <2>3, <2>4
    <1> QED
        BY <1>3, <1>4, <1>5

LEMMA SameBlock ==
    ASSUME NEW t, NEW text, NEW thoughts, NEW calls, Tellings(t, text, thoughts, calls),
           NEW block \in Block, NEW p \in PieceNumber
    PROVE  AfterBlock(t, [block EXCEPT !.pieces = Append(block.pieces, p)]) =
              WithPiece(AfterBlock(t, block), block.type, Len(calls), p)
    <1> DEFINE longer == [block EXCEPT !.pieces = Append(block.pieces, p)]
    <1>1. /\ text \in Seq(PieceNumber) /\ thoughts \in Seq(PieceNumber) /\ calls \in Seq(CallTold)
          /\ t = Told(text, thoughts, calls, <<>>, NoAudio)
        BY DEF Tellings
    <1>2. /\ block.type \in {"text", "thinking", "tool_use"} /\ block.pieces \in Seq(PieceNumber)
          /\ CallMade(block) \in CallTold
        BY BlockTypes
    <1>3. /\ longer.type = block.type /\ longer.pieces = Append(block.pieces, p)
          /\ longer.id = block.id /\ longer.name = block.name
        BY DEF Block
    <1> HIDE DEF longer
    <1>4. CASE block.type = "text"
        <2>1. AfterBlock(t, block) = Told(text \o block.pieces, thoughts, calls, <<>>, NoAudio)
            BY <1>1, <1>4, BlockAdds
        <2>2. AfterBlock(t, longer) = Told(text \o longer.pieces, thoughts, calls, <<>>, NoAudio)
            <3>1. longer.type = "text"
                BY <1>3, <1>4
            <3> QED
                BY <1>1, <3>1, BlockAdds
        <2>3. text \o longer.pieces = Append(text \o block.pieces, p)
            BY <1>1, <1>2, <1>3
        <2>4. WithPiece(AfterBlock(t, block), "text", Len(calls), p) =
                 Told(Append(text \o block.pieces, p), thoughts, calls, <<>>, NoAudio)
            BY <2>1, PieceAdds
        <2> QED
            BY <1>4, <2>2, <2>3, <2>4 DEF longer
    <1>5. CASE block.type = "thinking"
        <2>1. AfterBlock(t, block) = Told(text, thoughts \o block.pieces, calls, <<>>, NoAudio)
            BY <1>1, <1>5, BlockAdds
        <2>2. AfterBlock(t, longer) = Told(text, thoughts \o longer.pieces, calls, <<>>, NoAudio)
            <3>1. longer.type = "thinking"
                BY <1>3, <1>5
            <3> QED
                BY <1>1, <3>1, BlockAdds
        <2>3. thoughts \o longer.pieces = Append(thoughts \o block.pieces, p)
            BY <1>1, <1>2, <1>3
        <2>4. WithPiece(AfterBlock(t, block), "thinking", Len(calls), p) =
                 Told(text, Append(thoughts \o block.pieces, p), calls, <<>>, NoAudio)
            BY <2>1, PieceAdds
        <2> QED
            BY <1>5, <2>2, <2>3, <2>4 DEF longer
    <1>6. CASE block.type = "tool_use"
        <2> DEFINE made == CallMade(block)
                   all == Append(calls, made)
        <2>1. AfterBlock(t, block) = Told(text, thoughts, all, <<>>, NoAudio)
            BY <1>1, <1>6, BlockAdds
        <2>2. AfterBlock(t, longer) =
                 Told(text, thoughts, Append(calls, CallMade(longer)), <<>>, NoAudio)
            BY <1>1, <1>3, <1>6, BlockAdds
        <2>3. WithPiece(AfterBlock(t, block), "tool_use", Len(calls), p) =
                 Told(text, thoughts, MoreArgs(all, Len(calls), p), <<>>, NoAudio)
            BY <2>1, PieceAdds
        <2>4. made.args = block.pieces
            BY DEF CallMade
        <2>5. CallMade(longer) = [made EXCEPT !.args = Append(made.args, p)]
            <3>1. PICK id, name, pieces, put : /\ id = block.id /\ name = block.name
                                               /\ pieces = block.pieces
                                               /\ put = Append(pieces, p)
                OBVIOUS
            <3>2. made = [id |-> id, name |-> name, args |-> pieces]
                BY <3>1 DEF CallMade
            <3>3. CallMade(longer) = [id |-> id, name |-> name, args |-> put]
                BY <1>3, <3>1 DEF CallMade
            <3> HIDE DEF made
            <3>4. [made EXCEPT !.args = put] = [id |-> id, name |-> name, args |-> put]
                BY <3>2
            <3>5. put = Append(made.args, p)
                BY <2>4, <3>1
            <3> QED
                BY <3>3, <3>4, <3>5
        <2>6. /\ all \in Seq(CallTold) /\ Len(all) = Len(calls) + 1 /\ Len(calls) \in Nat
              /\ all[Len(calls) + 1] = made
              /\ \A i \in 1..Len(calls) : all[i] = calls[i]
            BY <1>1, <1>2, AppendProperties
        <2> HIDE DEF made, all
        <2> DEFINE other == CallMade(longer)
        <2>7. MoreArgs(all, Len(calls), p) = [all EXCEPT ![Len(calls) + 1] = other]
            BY <2>5, <2>6 DEF MoreArgs
        <2>8. other \in CallTold
            <3>1. longer \in Block
                <4> DEFINE pieces == Append(block.pieces, p)
                <4>1. pieces \in Seq(PieceNumber)
                    BY <1>2
                <4> HIDE DEF pieces
                <4>2. [block EXCEPT !.pieces = pieces] \in Block
                    BY <4>1 DEF Block
                <4> QED
                    BY <4>2 DEF longer, pieces
            <3> QED
                BY <3>1, BlockTypes
        <2> HIDE DEF other
        <2>9. Append(calls, other) = [all EXCEPT ![Len(calls) + 1] = other]
            <3> DEFINE a == Append(calls, other)
                       b == [all EXCEPT ![Len(calls) + 1] = other]
            <3>1. /\ a \in Seq(CallTold) /\ Len(a) = Len(calls) + 1
                  /\ \A i \in 1..Len(calls) : a[i] = calls[i]
                  /\ a[Len(calls) + 1] = other
                BY <1>1, <2>8, AppendProperties
            <3>2. Len(calls) + 1 \in 1..Len(all)
                BY <2>6
            <3>3. /\ b \in Seq(CallTold) /\ Len(b) = Len(all)
                  /\ \A i \in 1..Len(all) : b[i] = IF i = Len(calls) + 1 THEN other ELSE all[i]
                BY <2>6, <2>8, <3>2, ExceptSeq
            <3> HIDE DEF a, b
            <3>4. \A i \in 1..Len(a) : a[i] = b[i]
                BY <2>6, <3>1, <3>3
            <3>5. a = b
                BY <2>6, <3>1, <3>3, <3>4, SeqEqual
            <3> QED
                BY <3>5 DEF a, b
        <2> QED
            BY <1>6, <2>2, <2>3, <2>7, <2>9 DEF longer, other
    <1> QED
        BY <1>2, <1>4, <1>5, <1>6

OneIfTool(block) == IF block.type = "tool_use" THEN 1 ELSE 0

\* Every call told is a block more of that type.
LEMMA CallsGrow ==
    ASSUME NEW blocks \in Seq(Block)
    PROVE  LET f == BlocksTold(blocks)
           IN  /\ \A i \in 0..Len(blocks) : Len(f[i].calls) \in Nat
               /\ \A i \in 1..Len(blocks) :
                     Len(f[i].calls) = Len(f[i - 1].calls) + OneIfTool(blocks[i])
    <1> DEFINE f == BlocksTold(blocks)
    <1>1. \A i \in 0..Len(blocks) : \E text, thoughts, calls : Tellings(f[i], text, thoughts, calls)
        BY BlocksTyped
    <1>2. Len(blocks) \in Nat /\ \A i \in 1..Len(blocks) : blocks[i] \in Block
        OBVIOUS
    <1>3. \A i \in 1..Len(blocks) : f[i] = AfterBlock(f[i - 1], blocks[i])
        BY <1>2, BlocksStep
    <1> HIDE DEF f
    <1>4. \A t, text, thoughts, calls : Tellings(t, text, thoughts, calls) =>
             t.calls = calls /\ calls \in Seq(CallTold) /\ Len(calls) \in Nat
        <2> SUFFICES ASSUME NEW t, NEW text, NEW thoughts, NEW calls,
                            Tellings(t, text, thoughts, calls)
                     PROVE  t.calls = calls /\ calls \in Seq(CallTold) /\ Len(calls) \in Nat
            OBVIOUS
        <2>1. calls \in Seq(CallTold) /\ t = Told(text, thoughts, calls, <<>>, NoAudio)
            BY DEF Tellings
        <2>2. t.calls = calls
            BY <2>1, ToldFields
        <2> QED
            BY <2>1, <2>2
    <1>5. \A i \in 0..Len(blocks) : Len(f[i].calls) \in Nat
        BY <1>1, <1>4
    <1>6. ASSUME NEW i \in 1..Len(blocks)
          PROVE  Len(f[i].calls) = Len(f[i - 1].calls) + OneIfTool(blocks[i])
        <2>1. i - 1 \in 0..Len(blocks) /\ i \in 0..Len(blocks) /\ blocks[i] \in Block
            BY <1>2
        <2>2. PICK text, thoughts, calls : Tellings(f[i - 1], text, thoughts, calls)
            BY <1>1, <2>1
        <2> DEFINE block == blocks[i]
        <2>told. PICK x, y, z :
                    /\ Tellings(AfterBlock(f[i - 1], block), x, y, z)
                    /\ block.type # "tool_use" => z = calls
                    /\ block.type = "tool_use" => z = Append(calls, CallMade(block))
            <3> HIDE DEF block
            <3>1. block \in Block
                BY <2>1 DEF block
            <3> QED
                BY <2>2, <3>1, BlockTyped
        <2>3. /\ Tellings(f[i], x, y, z)
              /\ blocks[i].type # "tool_use" => z = calls
              /\ blocks[i].type = "tool_use" => z = Append(calls, CallMade(blocks[i]))
            BY <1>3, <2>told
        <2>4. /\ f[i - 1].calls = calls /\ calls \in Seq(CallTold) /\ Len(calls) \in Nat
              /\ f[i].calls = z
            BY <1>4, <2>2, <2>3
        <2>5. Len(Append(calls, CallMade(blocks[i]))) = Len(calls) + 1
            <3> DEFINE made == CallMade(blocks[i])
            <3>1. made \in CallTold
                BY <2>1, BlockTypes
            <3> HIDE DEF made
            <3> QED
                BY <2>4, <3>1, AppendProperties DEF made
        <2> QED
            BY <2>3, <2>4, <2>5 DEF OneIfTool
    <1> QED
        BY <1>5, <1>6 DEF f

\* A piece more of a block: everything told from that block on has it, in its place.
LEMMA BlocksPiece ==
    ASSUME NEW blocks \in Seq(Block), NEW b \in 1..Len(blocks), NEW p \in PieceNumber,
           NEW sort, sort = blocks[b].type,
           \A c \in b + 1..Len(blocks) : blocks[c].type # sort \/ sort = "tool_use",
           NEW h, h = Len(BlocksTold(blocks)[b - 1].calls)
    PROVE  LET f == BlocksTold(blocks)
               g == BlocksTold(MorePieces(blocks, b, p))
           IN  /\ \A i \in 0..b - 1 : g[i] = f[i]
               /\ \A i \in b..Len(blocks) : /\ g[i] = WithPiece(f[i], sort, h, p)
                                            /\ sort = "tool_use" => h \in 0..Len(f[i].calls) - 1
    <1> DEFINE more == MorePieces(blocks, b, p)
               f == BlocksTold(blocks)
               g == BlocksTold(more)
               n == Len(blocks)
               Good(i) == /\ g[i] = WithPiece(f[i], sort, h, p)
                          /\ sort = "tool_use" => h \in 0..Len(f[i].calls) - 1
               T == {i \in b..n : ~Good(i)}
    <1>1. /\ n \in Nat /\ b \in Nat /\ b - 1 \in Nat /\ b - 1 \in 0..n /\ b \in 0..n
          /\ \A i \in 1..n : blocks[i] \in Block
        OBVIOUS
    <1>2. /\ more \in Seq(Block) /\ Len(more) = n
          /\ \A i \in 1..n : i # b => more[i] = blocks[i]
          /\ more[b] = [blocks[b] EXCEPT !.pieces = Append(blocks[b].pieces, p)]
        <2>1. more \in Seq(Block) /\ Len(more) = n
            BY PiecesGrow
        <2> QED
            BY <2>1 DEF MorePieces
    <1>3. /\ \A i \in 1..n : f[i] = AfterBlock(f[i - 1], blocks[i])
          /\ \A i \in 1..n : g[i] = AfterBlock(g[i - 1], more[i])
        <2>1. \A i \in 1..n : f[i] = AfterBlock(f[i - 1], blocks[i])
            BY <1>1, BlocksStep
        <2> HIDE DEF more
        <2>2. \A i \in 1..n : g[i] = AfterBlock(g[i - 1], more[i])
            BY <1>1, <1>2, BlocksStep
        <2> QED
            BY <2>1, <2>2
    <1>4. \A i \in 0..b - 1 : g[i] = f[i]
        <2>1. \A i \in 1..b - 1 : more[i] = blocks[i]
            BY <1>1, <1>2
        <2>2. b - 1 <= n
            BY <1>1
        <2>3. PICK m \in Nat : m = b - 1
            BY <1>1
        <2>4. Len(more) \in Nat /\ m <= Len(more) /\ m <= Len(blocks)
              /\ \A i \in 1..m : more[i] = blocks[i]
            BY <1>1, <1>2, <2>1, <2>2, <2>3
        <2> HIDE DEF more
        <2>5. \A i \in 0..m : BlocksTold(more)[i] = BlocksTold(blocks)[i]
            BY <1>1, <2>4, BlocksAlike DEF n
        <2> QED
            BY <2>3, <2>5
    <1>5. /\ \A i \in 0..n : Len(f[i].calls) \in Nat
          /\ \A i \in 1..n : Len(f[i].calls) = Len(f[i - 1].calls) + OneIfTool(blocks[i])
        BY CallsGrow
    <1>6. \A i \in 0..n : \E text, thoughts, calls : Tellings(f[i], text, thoughts, calls)
        BY BlocksTyped
    <1>7. \A t, text, thoughts, calls : Tellings(t, text, thoughts, calls) => t.calls = calls
        BY ToldFields DEF Tellings
    <1>8. h = Len(f[b - 1].calls) /\ h \in Nat
        BY <1>1, <1>5
    <1> HIDE DEF f, g, more, n
    <1>9. Good(b)
        <2>1. PICK text, thoughts, calls : Tellings(f[b - 1], text, thoughts, calls)
            BY <1>1, <1>6
        <2>2. f[b - 1].calls = calls
            BY <1>7, <2>1
        <2>3. f[b] = AfterBlock(f[b - 1], blocks[b]) /\ g[b] = AfterBlock(f[b - 1], more[b])
            BY <1>1, <1>3, <1>4 DEF n
        <2>4. AfterBlock(f[b - 1], [blocks[b] EXCEPT !.pieces = Append(blocks[b].pieces, p)]) =
                 WithPiece(AfterBlock(f[b - 1], blocks[b]), blocks[b].type, Len(calls), p)
            BY <1>1, <2>1, SameBlock DEF n
        <2>5. g[b] = WithPiece(f[b], sort, h, p)
            BY <1>2, <1>8, <2>2, <2>3, <2>4
        <2>6. sort = "tool_use" => Len(f[b].calls) = h + 1
            BY <1>1, <1>5, <1>8 DEF OneIfTool, n
        <2> QED
            BY <1>8, <2>5, <2>6
    <1>10. ASSUME NEW i \in b + 1..n, Good(i - 1) PROVE Good(i)
        <2>1. i \in 1..n /\ i - 1 \in 0..n /\ i # b /\ blocks[i] \in Block
            BY <1>1
        <2>2. PICK text, thoughts, calls : Tellings(f[i - 1], text, thoughts, calls)
            BY <1>6, <2>1
        <2>3. f[i - 1].calls = calls
            BY <1>7, <2>2
        <2>4. f[i] = AfterBlock(f[i - 1], blocks[i])
            BY <1>3, <2>1
        <2>5. g[i] = AfterBlock(g[i - 1], blocks[i])
            BY <1>2, <1>3, <2>1
        <2>6. /\ g[i - 1] = WithPiece(f[i - 1], sort, h, p)
              /\ sort = "tool_use" => h \in 0..Len(calls) - 1
            BY <1>10, <2>3
        <2>7. sort \in {"text", "thinking", "tool_use"}
            BY <1>1, BlockTypes DEF n
        <2>8. blocks[i].type # sort \/ sort = "tool_use"
            BY DEF n
        <2>9. AfterBlock(WithPiece(f[i - 1], sort, h, p), blocks[i]) =
                 WithPiece(AfterBlock(f[i - 1], blocks[i]), sort, h, p)
            BY <2>1, <2>2, <2>6, <2>7, <2>8, LaterBlock
        <2>10. g[i] = WithPiece(f[i], sort, h, p)
            BY <2>4, <2>5, <2>6, <2>9
        <2>11. Len(f[i].calls) \in Nat /\ Len(calls) \in Nat /\ Len(f[i].calls) >= Len(calls)
            <3>1. Len(f[i].calls) = Len(calls) + OneIfTool(blocks[i])
                BY <1>5, <2>1, <2>3
            <3>2. OneIfTool(blocks[i]) \in Nat
                BY DEF OneIfTool
            <3>3. Len(calls) \in Nat
                BY <1>5, <2>1, <2>3
            <3> QED
                BY <3>1, <3>2, <3>3
        <2>12. sort = "tool_use" => h \in 0..Len(f[i].calls) - 1
            <3>1. PICK less, all : less = Len(calls) /\ all = Len(f[i].calls)
                OBVIOUS
            <3>2. sort = "tool_use" => h \in 0..less - 1
                BY <2>6, <3>1
            <3>3. less \in Nat /\ all \in Nat /\ all >= less
                BY <2>11, <3>1
            <3>4. h \in 0..less - 1 => h \in 0..all - 1
                BY ONLY <3>3
            <3> QED
                BY <3>1, <3>2, <3>4
        <2> QED
            BY <2>10, <2>12
    <1> HIDE DEF Good
    <1>11. T = {}
        <2> SUFFICES ASSUME T # {} PROVE FALSE
            OBVIOUS
        <2>1. PICK i \in T : \A j \in T : i <= j
            <3>1. T \subseteq Nat
                BY <1>1
            <3> HIDE DEF T
            <3> QED
                BY <3>1, LeastNumber
        <2>2. i # b
            BY <1>9
        <2>3. i \in b + 1..n /\ i - 1 \in b..n /\ ~(i <= i - 1)
            BY <1>1, <2>2
        <2>4. Good(i - 1)
            BY <2>1, <2>3
        <2> QED
            BY <1>10, <2>3, <2>4
    <1> QED
        BY <1>4, <1>11 DEF Good, f, g, more, n

\* A block more, empty at first.
LEMMA BlockAppended ==
    ASSUME NEW blocks \in Seq(Block), NEW block \in Block
    PROVE  LET all == Append(blocks, block)
           IN  /\ Len(all) = Len(blocks) + 1
               /\ all[Len(blocks) + 1] = block
               /\ \A i \in 1..Len(blocks) : all[i] = blocks[i]
               /\ \A i \in 0..Len(blocks) : BlocksTold(all)[i] = BlocksTold(blocks)[i]
               /\ BlocksTold(all)[Len(blocks) + 1] =
                     AfterBlock(BlocksTold(blocks)[Len(blocks)], block)
    <1> DEFINE all == Append(blocks, block)
    <1>1. /\ all \in Seq(Block) /\ Len(all) = Len(blocks) + 1 /\ Len(blocks) \in Nat
          /\ all[Len(blocks) + 1] = block
          /\ \A i \in 1..Len(blocks) : all[i] = blocks[i]
        BY BlocksGrow
    <1> HIDE DEF all
    <1>2. PICK m \in Nat : m = Len(blocks)
        BY <1>1
    <1>3. Len(all) \in Nat /\ m <= Len(all) /\ m <= Len(blocks) /\ \A i \in 1..m : all[i] = blocks[i]
        BY <1>1, <1>2
    <1>4. \A i \in 0..m : BlocksTold(all)[i] = BlocksTold(blocks)[i]
        BY <1>1, <1>3, BlocksAlike
    <1>5. m + 1 \in 1..Len(all) /\ (m + 1) - 1 = m /\ m \in 0..m
        BY <1>1, <1>2
    <1>6. BlocksTold(all)[m + 1] = AfterBlock(BlocksTold(all)[(m + 1) - 1], all[m + 1])
        BY <1>3, <1>5, BlocksStep
    <1>7. BlocksTold(all)[m + 1] = AfterBlock(BlocksTold(blocks)[m], block)
        BY <1>1, <1>2, <1>4, <1>5, <1>6
    <1> QED
        BY <1>1, <1>2, <1>4, <1>7 DEF all

LEMMA EmptyBlock ==
    ASSUME NEW t, NEW text, NEW thoughts, NEW calls, Tellings(t, text, thoughts, calls),
           NEW block \in Block
    PROVE  block.pieces = <<>> =>
              /\ block.type # "tool_use" => AfterBlock(t, block) = t
              /\ block.type = "tool_use" =>
                    /\ AfterBlock(t, block) =
                          [t EXCEPT !.calls = Append(t.calls, [id |-> block.id, name |-> block.name,
                                                               args |-> <<>>])]
                    /\ Len(AfterBlock(t, block).calls) = Len(t.calls) + 1
    <1>1. /\ text \in Seq(PieceNumber) /\ thoughts \in Seq(PieceNumber) /\ calls \in Seq(CallTold)
          /\ t = Told(text, thoughts, calls, <<>>, NoAudio)
        BY DEF Tellings
    <1>2. block.type \in {"text", "thinking", "tool_use"}
        BY BlockTypes
    <1>3. text \o <<>> = text /\ thoughts \o <<>> = thoughts
        BY <1>1
    <1>4. t.calls = calls /\ \A x : [t EXCEPT !.calls = x] = Told(text, thoughts, x, <<>>, NoAudio)
        BY <1>1, ToldFields
    <1> DEFINE made == CallMade(block)
               all == Append(calls, made)
    <1>5. /\ block.type = "text" =>
                AfterBlock(t, block) = Told(text \o block.pieces, thoughts, calls, <<>>, NoAudio)
          /\ block.type = "thinking" =>
                AfterBlock(t, block) = Told(text, thoughts \o block.pieces, calls, <<>>, NoAudio)
          /\ block.type = "tool_use" =>
                AfterBlock(t, block) = Told(text, thoughts, all, <<>>, NoAudio)
        BY <1>1, BlockAdds
    <1>6. ASSUME block.pieces = <<>>, block.type # "tool_use" PROVE AfterBlock(t, block) = t
        BY <1>1, <1>2, <1>3, <1>5, <1>6
    <1>7. ASSUME block.pieces = <<>>, block.type = "tool_use"
          PROVE  /\ AfterBlock(t, block) =
                       [t EXCEPT !.calls = Append(t.calls, [id |-> block.id, name |-> block.name,
                                                            args |-> <<>>])]
                 /\ Len(AfterBlock(t, block).calls) = Len(t.calls) + 1
        <2>1. AfterBlock(t, block) = Told(text, thoughts, all, <<>>, NoAudio)
            BY <1>5, <1>7
        <2>2. made = [id |-> block.id, name |-> block.name, args |-> <<>>] /\ made \in CallTold
            BY <1>7, BlockTypes DEF CallMade
        <2> HIDE DEF made
        <2>3. Len(all) = Len(calls) + 1
            BY <1>1, <2>2, AppendProperties
        <2>4. all = Append(t.calls, [id |-> block.id, name |-> block.name, args |-> <<>>])
            BY <1>4, <2>2
        <2> HIDE DEF all
        <2>5. AfterBlock(t, block) = [t EXCEPT !.calls = all]
            BY <1>4, <2>1
        <2>6. AfterBlock(t, block).calls = all
            BY <2>1, ToldFields
        <2> QED
            BY <1>4, <2>3, <2>4, <2>5, <2>6
    <1> QED
        BY <1>6, <1>7

LEMMA PieceKeepsCalls ==
    ASSUME NEW t, NEW text, NEW thoughts, NEW calls, Tellings(t, text, thoughts, calls),
           NEW sort \in {"text", "thinking", "tool_use"}, NEW h, NEW p \in PieceNumber,
           sort = "tool_use" => h \in 0..Len(t.calls) - 1
    PROVE  Len(WithPiece(t, sort, h, p).calls) = Len(t.calls)
    <1>1. calls \in Seq(CallTold) /\ t = Told(text, thoughts, calls, <<>>, NoAudio)
        BY DEF Tellings
    <1>2. t.calls = calls
        BY <1>1, ToldFields
    <1>3. CASE sort = "text"
        <2>1. WithPiece(t, sort, h, p) = Told(Append(text, p), thoughts, calls, <<>>, NoAudio)
            BY <1>1, <1>3, PieceAdds
        <2> QED
            BY <1>2, <2>1, ToldFields
    <1>4. CASE sort = "thinking"
        <2>1. WithPiece(t, sort, h, p) = Told(text, Append(thoughts, p), calls, <<>>, NoAudio)
            BY <1>1, <1>4, PieceAdds
        <2> QED
            BY <1>2, <2>1, ToldFields
    <1>5. CASE sort = "tool_use"
        <2> DEFINE args == MoreArgs(calls, h, p)
        <2>1. WithPiece(t, sort, h, p) = Told(text, thoughts, args, <<>>, NoAudio)
            BY <1>1, <1>5, PieceAdds
        <2>2. h \in 0..Len(calls) - 1 /\ Len(calls) \in Nat
            BY <1>1, <1>2, <1>5
        <2>3. calls[h + 1] \in CallTold
            BY <1>1, <2>2
        <2>4. Len(args) = Len(calls)
            BY <1>1, <2>2, <2>3, ArgsBefore
        <2> HIDE DEF args
        <2> QED
            BY <1>2, <2>1, <2>4, ToldFields
    <1> QED
        BY <1>3, <1>4, <1>5

\* What the adapter and the client know of the answer: its counts, everything that its
\* blocks tell, and of every block that is a call its place among the calls.
CountsTold(l, stop, input, cached, output) ==
    /\ input \in Nat /\ cached \in Nat
    /\ l.stop = stop /\ l.prompt = input + cached /\ l.completion = output

BlocksRead(v, blocks, started) ==
    /\ ToldBy(v) = BlocksTold(blocks)[Len(blocks)]
    /\ \A b \in 1..Len(blocks) :
          blocks[b].type = "tool_use" => started[b - 1] + 1 = Len(BlocksTold(blocks)[b].calls)

AnthropicAgree ==
    phase \in {"streaming", "eof"} /\ provider = "anthropic" =>
        /\ CountsTold(ad, answer.stop, answer.usage.input, answer.usage.cached,
                      answer.usage.output)
        /\ BlocksRead(view, answer.blocks, ad.started)

LEMMA EventCounts ==
    ASSUME NEW l, NEW data
    PROVE  /\ LET e == AnthropicEvent(l, "message_start", data)
              IN  /\ e.ad.prompt = data.usage.input + data.usage.cached
                  /\ e.ad.completion = l.completion /\ e.ad.stop = l.stop
           /\ LET e == AnthropicEvent(l, "content_block_start", data)
              IN  /\ e.ad.prompt = l.prompt
                  /\ e.ad.completion = l.completion /\ e.ad.stop = l.stop
           /\ LET e == AnthropicEvent(l, "content_block_delta", data)
              IN  /\ e.ad.prompt = l.prompt
                  /\ e.ad.completion = l.completion /\ e.ad.stop = l.stop
           /\ LET e == AnthropicEvent(l, "message_delta", data)
              IN  /\ e.ad.prompt = PromptOnce(l, data.usage) /\ e.ad.stop = data.stop
                  /\ data.usage.output # -1 => e.ad.completion = data.usage.output
    BY DEF AnthropicEvent

LEMMA AgreeFound ==
    ASSUME AnthropicAgree, phase \in {"streaming", "eof"}, provider = "anthropic",
           NEW begun, NEW blocks, NEW stop, NEW input, NEW cached, NEW output, NEW n,
           answer = AnthropicAnswer(begun, blocks, stop, input, cached, output, n)
    PROVE  CountsTold(ad, stop, input, cached, output) /\ BlocksRead(view, blocks, ad.started)
    BY AnswerFields DEF AnthropicAgree

LEMMA AgreeNext ==
    ASSUME NEW l, NEW v, NEW begun, NEW blocks, NEW stop, NEW input, NEW cached, NEW output,
           NEW n, CountsTold(l, stop, input, cached, output), BlocksRead(v, blocks, l.started),
           answer' = AnthropicAnswer(begun, blocks, stop, input, cached, output, n),
           ad' = l, view' = v
    PROVE  AnthropicAgree'
    BY AnswerFields DEF AnthropicAgree

\* A block of text or thoughts, empty as yet, tells nothing.
LEMMA TextBlockRead ==
    ASSUME NEW v, NEW blocks \in Seq(Block), NEW started, BlocksRead(v, blocks, started),
           NEW block \in Block, block.pieces = <<>>, block.type # "tool_use"
    PROVE  BlocksRead(v, Append(blocks, block), started)
    <1> DEFINE all == Append(blocks, block)
               f == BlocksTold(blocks)
               g == BlocksTold(all)
    <1>1. PICK m \in Nat : m = Len(blocks)
        OBVIOUS
    <1>2. /\ Len(all) = m + 1 /\ all[m + 1] = block
          /\ \A i \in 1..m : all[i] = blocks[i]
          /\ \A i \in 0..m : g[i] = f[i]
          /\ g[m + 1] = AfterBlock(f[m], block)
        BY <1>1, BlockAppended
    <1> HIDE DEF all, f, g
    <1>3. \E text, thoughts, calls : Tellings(f[m], text, thoughts, calls)
        BY <1>1, BlocksTyped DEF f
    <1>4. AfterBlock(f[m], block) = f[m]
        BY <1>3, EmptyBlock
    <1>5. ToldBy(v) = f[m] /\ \A b \in 1..m : blocks[b].type = "tool_use" =>
                                  started[b - 1] + 1 = Len(f[b].calls)
        BY <1>1 DEF BlocksRead, f
    <1>6. ToldBy(v) = g[Len(all)]
        BY <1>2, <1>4, <1>5
    <1>7. ASSUME NEW b \in 1..Len(all), all[b].type = "tool_use"
          PROVE  started[b - 1] + 1 = Len(g[b].calls)
        <2>1. b # m + 1
            BY <1>2, <1>7
        <2>2. b \in 1..m /\ b \in 0..m
            BY <1>1, <1>2, <1>7, <2>1
        <2> QED
            BY <1>2, <1>5, <1>7, <2>2
    <1> QED
        BY <1>6, <1>7 DEF BlocksRead, all, g

\* A block that is a call tells a call, which is what its chunk adds.
LEMMA ToolBlockRead ==
    ASSUME NEW v, NEW c, NEW k \in Nat, Reads(v, c, 1, k, <<>>),
           NEW blocks \in Seq(Block), NEW started \in [0..MaxBlocks - 1 -> Int],
           Len(blocks) < MaxBlocks, BlocksRead(v, blocks, started),
           NEW block \in Block, block.pieces = <<>>, block.type = "tool_use"
    PROVE  BlocksRead(Assemble(v, CallStart(k, block.id, block.name, <<>>)), Append(blocks, block),
                      [started EXCEPT ![Len(blocks)] = k])
    <1> DEFINE all == Append(blocks, block)
               f == BlocksTold(blocks)
               g == BlocksTold(all)
               made == [id |-> block.id, name |-> block.name, args |-> <<>>]
               w == Assemble(v, CallStart(k, block.id, block.name, <<>>))
    <1>1. PICK m \in Nat : m = Len(blocks)
        OBVIOUS
    <1> DEFINE later == [started EXCEPT ![m] = k]
    <1>2. /\ Len(all) = m + 1 /\ all[m + 1] = block
          /\ \A i \in 1..m : all[i] = blocks[i]
          /\ \A i \in 0..m : g[i] = f[i]
          /\ g[m + 1] = AfterBlock(f[m], block)
        BY <1>1, BlockAppended
    <1>3. /\ ToldBy(w) = [ToldBy(v) EXCEPT !.calls = Append(ToldBy(v).calls, made)]
          /\ Len(ToldBy(v).calls) = k
        <2>1. /\ \A id, name, args :
                    ToldBy(Assemble(v, CallStart(k, id, name, args))) =
                    [ToldBy(v) EXCEPT !.calls =
                        Append(ToldBy(v).calls, [id |-> id, name |-> name, args |-> args])]
              /\ Len(ToldBy(v).calls) = k
            BY ChunkTold
        <2> QED
            BY <2>1
    <1>4. m \in 0..MaxBlocks - 1
        BY <1>1, ExchangeAssumption
    <1>later. /\ later[m] = k /\ \A b \in 1..m : later[b - 1] = started[b - 1]
        BY <1>1, <1>4
    <1> HIDE DEF all, f, g, w, later
    <1>5. \E text, thoughts, calls : Tellings(f[m], text, thoughts, calls)
        BY <1>1, BlocksTyped DEF f
    <1>6. /\ AfterBlock(f[m], block) = [f[m] EXCEPT !.calls = Append(f[m].calls, made)]
          /\ Len(AfterBlock(f[m], block).calls) = Len(f[m].calls) + 1
        BY <1>5, EmptyBlock
    <1> HIDE DEF made
    <1>7. ToldBy(v) = f[m] /\ \A b \in 1..m : blocks[b].type = "tool_use" =>
                                  started[b - 1] + 1 = Len(f[b].calls)
        BY <1>1 DEF BlocksRead, f
    <1>8. ToldBy(w) = g[Len(all)] /\ Len(g[m + 1].calls) = k + 1
        BY <1>2, <1>3, <1>6, <1>7
    <1>9. ASSUME NEW b \in 1..Len(all), all[b].type = "tool_use"
          PROVE  later[b - 1] + 1 = Len(g[b].calls)
        <2>1. CASE b = m + 1
            BY <1>1, <1>8, <1>later, <2>1
        <2>2. CASE b # m + 1
            <3>1. b \in 1..m /\ b \in 0..m
                BY <1>1, <1>2, <1>9, <2>2
            <3> QED
                BY <1>2, <1>7, <1>9, <1>later, <3>1
        <2> QED
            BY <2>1, <2>2
    <1> QED
        BY <1>1, <1>8, <1>9 DEF BlocksRead, all, g, w, later

\* A piece of a block is a piece more of what has been told, in its place.
LEMMA PieceTold ==
    ASSUME NEW l, NEW data, NEW sort \in {"text", "thinking", "tool_use"},
           NEW p \in PieceNumber, NEW k \in Nat, NEW v, NEW c, NEW h,
           data.delta = DeltaOf(sort), data.piece = p,
           sort = "tool_use" => h \in 0..k - 1 /\ l.started[data.index] = h,
           Reads(v, c, 1, k, <<>>)
    PROVE  ToldBy(Assemble(v, DeltaChunk(l, data))) = WithPiece(ToldBy(v), sort, h, p)
    <1>1. CASE sort = "text"
        <2>1. data.delta = "text_delta"
            BY <1>1 DEF DeltaOf
        <2>2. DeltaChunk(l, data) = Content(p)
            BY <2>1 DEF DeltaChunk
        <2> QED
            BY <1>1, <2>2, ChunkTold DEF WithPiece
    <1>2. CASE sort = "thinking"
        <2>1. data.delta = "thinking_delta"
            BY <1>2 DEF DeltaOf
        <2>2. DeltaChunk(l, data) = Reasoning(p)
            BY <2>1 DEF DeltaChunk
        <2> QED
            BY <1>2, <2>2, ChunkTold DEF WithPiece
    <1>3. CASE sort = "tool_use"
        <2>1. data.delta = "input_json_delta"
            BY <1>3 DEF DeltaOf
        <2>2. CallOfBlock(l, data.index) = h /\ h \in 0..k - 1
            BY <1>3 DEF CallOfBlock
        <2>3. DeltaChunk(l, data) = CallArgs(h, p)
            BY <2>1, <2>2 DEF DeltaChunk
        <2>4. ToldBy(Assemble(v, CallArgs(h, p))) =
                 [ToldBy(v) EXCEPT !.calls = MoreArgs(ToldBy(v).calls, h, p)]
            BY <2>2, ArgsTold
        <2> QED
            BY <1>3, <2>3, <2>4 DEF WithPiece
    <1> QED
        BY <1>1, <1>2, <1>3

LEMMA PieceBlockRead ==
    ASSUME NEW v, NEW w, NEW blocks \in Seq(Block), NEW started, BlocksRead(v, blocks, started),
           NEW b \in 1..Len(blocks), NEW p \in PieceNumber, NEW sort, sort = blocks[b].type,
           \A i \in b + 1..Len(blocks) : blocks[i].type # sort \/ sort = "tool_use",
           NEW h, h = Len(BlocksTold(blocks)[b - 1].calls),
           ToldBy(w) = WithPiece(ToldBy(v), sort, h, p)
    PROVE  BlocksRead(w, MorePieces(blocks, b, p), started)
    <1> DEFINE more == MorePieces(blocks, b, p)
               f == BlocksTold(blocks)
               g == BlocksTold(more)
    <1>1. PICK m \in Nat : m = Len(blocks)
        OBVIOUS
    <1>2. /\ \A i \in 0..b - 1 : g[i] = f[i]
          /\ \A i \in b..m : /\ g[i] = WithPiece(f[i], sort, h, p)
                             /\ sort = "tool_use" => h \in 0..Len(f[i].calls) - 1
        BY <1>1, BlocksPiece
    <1>3. Len(more) = m /\ \A i \in 1..m : more[i].type = blocks[i].type
        BY <1>1, PiecesGrow
    <1>4. sort \in {"text", "thinking", "tool_use"}
        <2>1. blocks[b] \in Block
            OBVIOUS
        <2> QED
            BY <2>1, BlockTypes
    <1> HIDE DEF more, f, g
    <1>5. \A i \in 0..m : \E text, thoughts, calls : Tellings(f[i], text, thoughts, calls)
        BY <1>1, BlocksTyped DEF f
    <1>6. ToldBy(v) = f[m] /\ \A i \in 1..m : blocks[i].type = "tool_use" =>
                                  started[i - 1] + 1 = Len(f[i].calls)
        BY <1>1 DEF BlocksRead, f
    <1>7. ToldBy(w) = g[Len(more)]
        BY <1>1, <1>2, <1>3, <1>6
    <1>8. ASSUME NEW i \in 1..m
          PROVE  Len(g[i].calls) = Len(f[i].calls)
        <2>1. CASE i \in 0..b - 1
            BY <1>2, <2>1
        <2>2. CASE i \in b..m
            <3>1. /\ g[i] = WithPiece(f[i], sort, h, p)
                  /\ sort = "tool_use" => h \in 0..Len(f[i].calls) - 1
                BY <1>2, <2>2
            <3>2. PICK text, thoughts, calls : Tellings(f[i], text, thoughts, calls)
                BY <1>5
            <3>3. PICK t : t = f[i]
                OBVIOUS
            <3>4. Tellings(t, text, thoughts, calls) /\ (sort = "tool_use" => h \in 0..Len(t.calls) - 1)
                BY <3>1, <3>2, <3>3
            <3>5. Len(WithPiece(t, sort, h, p).calls) = Len(t.calls)
                BY <1>4, <3>4, PieceKeepsCalls
            <3> QED
                BY <3>1, <3>3, <3>5
        <2> QED
            BY <1>1, <2>1, <2>2
    <1>9. \A i \in 1..Len(more) : more[i].type = "tool_use" =>
             started[i - 1] + 1 = Len(g[i].calls)
        BY <1>3, <1>6, <1>8
    <1> QED
        BY <1>7, <1>9 DEF BlocksRead, more, g

\* The prompt is counted once.
LEMMA PromptCounted ==
    ASSUME NEW l, NEW l2, NEW stop, NEW input, NEW cached, NEW output, NEW why,
           NEW last \in Nat \cup {-1}, NEW usage, usage.input = last,
           CountsTold(l, stop, input, cached, output),
           last = -1 \/ last = input \/ input + cached = 0,
           l2.stop = why, l2.completion = 1, l2.prompt = PromptOnce(l, usage)
    PROVE  CountsTold(l2, why, IF last = -1 THEN input ELSE last, cached, 1)
    BY DEF CountsTold, PromptOnce

\* The steps of an Anthropic stream.
LEMMA AnthropicFound ==
    ASSUME AnthropicInv, phase \in {"streaming", "eof"}, provider = "anthropic"
    PROVE  \E begun, blocks, n, k, started, stop, input, cached, output :
              /\ AnthropicSound(begun, blocks, n, k, started)
              /\ answer = AnthropicAnswer(begun, blocks, stop, input, cached, output, n)
              /\ answer.begun = begun /\ answer.blocks = blocks /\ answer.pieces = n
              /\ AnthropicRead(begun, k, started)
    BY AnswerFields DEF AnthropicInv, AnthropicAnswered

LEMMA MessageStartStep ==
    ASSUME AnthropicInv, AnthropicAgree, NEW usage, MessageStart(usage),
           usage.input \in Nat, usage.cached \in Nat
    PROVE  AnthropicInv' /\ AnthropicAgree'
    <1>0. PICK t \in BOOLEAN : t
        OBVIOUS
    <1> DEFINE data == [type |-> "message_start", usage |-> usage]
               after == Begins(answer, t, usage.input, usage.cached)
    <1>1. /\ phase = "streaming" /\ provider = "anthropic" /\ ~answer.begun
          /\ AnthropicSends(data, after, TRUE)
        BY <1>0 DEF MessageStart, Streaming, Begins
    <1>2. PICK begun, blocks, n, k, started, stop, input, cached, output :
             /\ AnthropicSound(begun, blocks, n, k, started)
             /\ answer = AnthropicAnswer(begun, blocks, stop, input, cached, output, n)
             /\ answer.begun = begun /\ answer.blocks = blocks /\ answer.pieces = n
             /\ AnthropicRead(begun, k, started)
        BY <1>1, AnthropicFound
    <1>3. begun = FALSE /\ ad.role = FALSE
        BY <1>1, <1>2 DEF AnthropicSound, AnthropicRead
    <1>4. data.type = "message_start"
        OBVIOUS
    <1> HIDE DEF data, after
    <1>5. LET e == AnthropicEvent(ad, "message_start", data)
          IN  /\ e.ad.role = TRUE /\ e.ad.index = ad.index /\ e.ad.started = ad.started
              /\ e.chunks = <<Role>>
        BY <1>3, MessageStartEvent
    <1>6. /\ answer' = after /\ ad' = AnthropicEvent(ad, "message_start", data).ad
          /\ view' = Assemble(view, Role) /\ counter' = CountChunk(counter, Role)
        BY <1>1, <1>4, <1>5, SendsOne
    <1>7. after = AnthropicAnswer(t, blocks, stop, usage.input, usage.cached, output, n)
        BY <1>2, AnswerBegins DEF after
    <1>8. AnthropicAnswered(t, blocks, n)'
        BY <1>6, <1>7 DEF AnthropicAnswered
    <1>9. Reads(Assemble(view, Role), CountChunk(counter, Role), 1, k, <<>>)
        BY <1>2, <1>3, RoleRead DEF AnthropicRead
    <1>10. AnthropicRead(t, k, started)'
        BY <1>0, <1>2, <1>5, <1>6, <1>9 DEF AnthropicRead
    <1>11. AnthropicSound(t, blocks, n, k, started)
        BY <1>2 DEF AnthropicSound
    <1>inv. AnthropicInv'
        BY <1>8, <1>10, <1>11 DEF AnthropicInv
    <1>agree. AnthropicAgree'
        <2>1. BlocksRead(view, blocks, ad.started) /\ CountsTold(ad, stop, input, cached, output)
            BY <1>1, <1>2, AgreeFound
        <2> DEFINE l == AnthropicEvent(ad, "message_start", data).ad
                   v == Assemble(view, Role)
        <2>2. /\ l.prompt = data.usage.input + data.usage.cached
              /\ l.completion = ad.completion /\ l.stop = ad.stop
            BY EventCounts
        <2>3. l.started = ad.started
            BY <1>5
        <2>4. ToldBy(v) = ToldBy(view)
            BY <1>2, <1>3, RoleTold DEF AnthropicRead
        <2>5. ad' = l /\ view' = v
            BY <1>6
        <2>6. data.usage = usage
            BY DEF data
        <2> HIDE DEF l, v
        <2>7. CountsTold(l, stop, usage.input, usage.cached, output)
            BY <2>1, <2>2, <2>6 DEF CountsTold
        <2>8. BlocksRead(v, blocks, l.started)
            BY <2>1, <2>3, <2>4 DEF BlocksRead
        <2> QED
            BY <1>6, <1>7, <2>5, <2>7, <2>8, AgreeNext
    <1> QED
        BY <1>inv, <1>agree

LEMMA UnfinishedFound ==
    ASSUME AnthropicInv, Unfinished
    PROVE  \E begun, blocks, n, k, started, stop, input, cached, output :
              /\ AnthropicSound(begun, blocks, n, k, started)
              /\ answer = AnthropicAnswer(begun, blocks, stop, input, cached, output, n)
              /\ answer.begun = begun /\ answer.blocks = blocks /\ answer.pieces = n
              /\ AnthropicRead(begun, k, started)
              /\ ad.role = TRUE /\ ad.index = k - 1 /\ ad.started = started
              /\ Reads(view, counter, 1, k, <<>>)
    <1>1. phase \in {"streaming", "eof"} /\ provider = "anthropic" /\ answer.begun
        BY DEF Unfinished, Streaming
    <1>2. PICK begun, blocks, n, k, started, stop, input, cached, output :
              /\ AnthropicSound(begun, blocks, n, k, started)
              /\ answer = AnthropicAnswer(begun, blocks, stop, input, cached, output, n)
              /\ answer.begun = begun /\ answer.blocks = blocks /\ answer.pieces = n
              /\ AnthropicRead(begun, k, started)
        BY <1>1, AnthropicFound
    <1>3. begun = TRUE
        BY <1>1, <1>2 DEF AnthropicSound
    <1>4. /\ ad.role = TRUE /\ ad.index = k - 1 /\ ad.started = started
          /\ Reads(view, counter, 1, k, <<>>)
        BY <1>2, <1>3 DEF AnthropicRead
    <1> QED
        BY <1>2, <1>4

\* A new block, numbered by the blocks before it.
NewBlock(sort, name, m) ==
    [type |-> sort, id |-> <<"toolu", m>>, name |-> name, pieces |-> <<>>]

LEMMA NewBlockTyped ==
    ASSUME NEW sort \in {"text", "thinking", "tool_use"}, NEW name \in ToolName \cup {NoName},
           NEW m \in Nat
    PROVE  /\ NewBlock(sort, name, m) \in Block /\ NewBlock(sort, name, m).type = sort
           /\ NewBlock(sort, name, m).pieces = <<>>
    <1> DEFINE id == <<"toolu", m>>
    <1>1. id \in {<<"toolu", i>> : i \in Nat}
        BY Zenon
    <1>2. NewBlock(sort, name, m) = [type |-> sort, id |-> id, name |-> name, pieces |-> <<>>]
        BY DEF NewBlock
    <1> HIDE DEF id
    <1>3. <<>> \in Seq(PieceNumber)
        OBVIOUS
    <1> QED
        BY <1>1, <1>2, <1>3 DEF Block

\* A block of text or thoughts begins: no chunk.
LEMMA TextStartStep ==
    ASSUME AnthropicInv, AnthropicAgree, NEW sort \in {"text", "thinking"}, NEW name \in ToolName \cup {NoName},
           BlockStart(sort, name)
    PROVE  AnthropicInv' /\ AnthropicAgree'
    <1>0. PICK m : m = Len(answer.blocks)
        OBVIOUS
    <1> DEFINE block == NewBlock(sort, name, m)
               data == [type |-> "content_block_start", index |-> m, block |-> sort,
                        id |-> block.id, name |-> name]
               after == GainsBlock(answer, block)
    <1>1. Unfinished /\ m < MaxBlocks /\ AnthropicSends(data, after, TRUE)
        BY <1>0 DEF BlockStart, GainsBlock, NewBlock
    <1>2. PICK begun, blocks, n, k, started, stop, input, cached, output :
              /\ AnthropicSound(begun, blocks, n, k, started)
              /\ answer = AnthropicAnswer(begun, blocks, stop, input, cached, output, n)
              /\ answer.begun = begun /\ answer.blocks = blocks /\ answer.pieces = n
              /\ AnthropicRead(begun, k, started)
              /\ ad.role = TRUE /\ ad.index = k - 1 /\ ad.started = started
              /\ Reads(view, counter, 1, k, <<>>)
        BY <1>1, UnfinishedFound
    <1>3. data.type = "content_block_start" /\ data.block # "tool_use"
        OBVIOUS
    <1>blocks. blocks \in Seq(Block) /\ Len(blocks) \in Nat /\ m = Len(blocks)
        <2>1. blocks \in Seq(Block)
            BY <1>2 DEF AnthropicSound
        <2>2. answer.blocks = blocks
            BY <1>2
        <2> QED
            BY <1>0, <2>1, <2>2
    <1>4. block \in Block /\ block.type = sort /\ block.pieces = <<>>
        BY <1>blocks, NewBlockTyped
    <1> HIDE DEF block
    <1>role. begun = TRUE
        BY <1>1, <1>2 DEF AnthropicSound, Unfinished
    <1>5. after = AnthropicAnswer(begun, Append(blocks, block), stop, input, cached, output, n)
        <2>1. answer = AnthropicAnswer(begun, blocks, stop, input, cached, output, n)
            BY <1>2
        <2> QED
            BY <2>1, AnswerGainsBlock
    <1> HIDE DEF data, after
    <1>6. LET e == AnthropicEvent(ad, "content_block_start", data)
          IN  /\ e.ad.role = TRUE /\ e.ad.index = ad.index /\ e.ad.started = ad.started
              /\ e.chunks = <<>>
        BY <1>2, <1>3, BlockStartEvent
    <1>7. /\ answer' = after /\ ad' = AnthropicEvent(ad, "content_block_start", data).ad
          /\ view' = view /\ counter' = counter
        BY <1>1, <1>3, <1>6, SendsOne
    <1>sound. AnthropicSound(begun, blocks, n, k, started)
        BY <1>2
    <1>8. AnthropicSound(begun, Append(blocks, block), n, k, started)
        <2>1. blocks \in Seq(Block) /\ Len(blocks) \in Nat /\ m = Len(blocks) /\ MaxBlocks \in Nat
            BY <1>blocks, ExchangeAssumption
        <2>2. /\ Append(blocks, block) \in Seq(Block)
              /\ Len(Append(blocks, block)) = Len(blocks) + 1
              /\ Append(blocks, block)[Len(blocks) + 1] = block
              /\ \A b \in 1..Len(blocks) : Append(blocks, block)[b] = blocks[b]
            BY <1>4, <2>1, BlocksGrow
        <2>3. block.type # "tool_use"
            BY <1>4
        <2> DEFINE all == Append(blocks, block)
        <2>4. Len(all) <= MaxBlocks
            BY <1>1, <1>0, <1>2, <2>1, <2>2
        <2>5. ASSUME NEW b \in 1..Len(all), all[b].type = "tool_use"
              PROVE  started[b - 1] \in 0..k - 1
            <3>1. b # Len(blocks) + 1
                BY <2>2, <2>3, <2>5
            <3>2. b \in 1..Len(blocks)
                BY <2>1, <2>2, <3>1
            <3> QED
                BY <1>sound, <2>2, <2>5, <3>2 DEF AnthropicSound
        <2>6. all \in Seq(Block)
            BY <2>2
        <2> HIDE DEF all
        <2>7. AnthropicSound(begun, all, n, k, started)
            BY <1>sound, <2>4, <2>5, <2>6 DEF AnthropicSound
        <2> QED
            BY <2>7 DEF all
    <1>9. AnthropicAnswered(begun, Append(blocks, block), n)'
        BY <1>5, <1>7 DEF AnthropicAnswered
    <1>10. AnthropicRead(begun, k, started)'
        BY <1>role, <1>2, <1>6, <1>7 DEF AnthropicRead
    <1>inv. AnthropicInv'
        BY <1>8, <1>9, <1>10 DEF AnthropicInv
    <1>agree. AnthropicAgree'
        <2>1. BlocksRead(view, blocks, ad.started) /\ CountsTold(ad, stop, input, cached, output)
            BY <1>1, <1>2, AgreeFound DEF Unfinished, Streaming
        <2> DEFINE l == AnthropicEvent(ad, "content_block_start", data).ad
        <2>2. l.prompt = ad.prompt /\ l.completion = ad.completion /\ l.stop = ad.stop
            BY EventCounts
        <2>3. l.started = ad.started
            BY <1>6
        <2>4. PICK v : v = view
            OBVIOUS
        <2>5. ad' = l /\ view' = v
            BY <1>7, <2>4
        <2> HIDE DEF l
        <2>6. CountsTold(l, stop, input, cached, output)
            BY <2>1, <2>2 DEF CountsTold
        <2>7. BlocksRead(v, Append(blocks, block), l.started)
            BY <1>blocks, <1>4, <2>1, <2>3, <2>4, TextBlockRead
        <2>8. answer' = AnthropicAnswer(begun, Append(blocks, block), stop, input, cached, output, n)
            BY <1>5, <1>7
        <2> QED
            BY <2>5, <2>6, <2>7, <2>8, AgreeNext
    <1> QED
        BY <1>inv, <1>agree

\* A call begins: its chunk bears the next index.
LEMMA ToolStartStep ==
    ASSUME AnthropicInv, AnthropicAgree, NEW name \in ToolName, BlockStart("tool_use", name)
    PROVE  AnthropicInv' /\ AnthropicAgree'
    <1>0. PICK m : m = Len(answer.blocks)
        OBVIOUS
    <1> DEFINE block == NewBlock("tool_use", name, m)
               data == [type |-> "content_block_start", index |-> m, block |-> "tool_use",
                        id |-> block.id, name |-> name]
               after == GainsBlock(answer, block)
    <1>1. Unfinished /\ m < MaxBlocks /\ AnthropicSends(data, after, TRUE)
        BY <1>0 DEF BlockStart, GainsBlock, NewBlock
    <1>2. PICK begun, blocks, n, k, started, stop, input, cached, output :
              /\ AnthropicSound(begun, blocks, n, k, started)
              /\ answer = AnthropicAnswer(begun, blocks, stop, input, cached, output, n)
              /\ answer.begun = begun /\ answer.blocks = blocks /\ answer.pieces = n
              /\ AnthropicRead(begun, k, started)
              /\ ad.role = TRUE /\ ad.index = k - 1 /\ ad.started = started
              /\ Reads(view, counter, 1, k, <<>>)
        BY <1>1, UnfinishedFound
    <1>3. data.type = "content_block_start" /\ data.block = "tool_use" /\ data.index = m
        OBVIOUS
    <1>blocks. blocks \in Seq(Block) /\ Len(blocks) \in Nat /\ m = Len(blocks)
        <2>1. blocks \in Seq(Block)
            BY <1>2 DEF AnthropicSound
        <2>2. answer.blocks = blocks
            BY <1>2
        <2> QED
            BY <1>0, <2>1, <2>2
    <1>4. block \in Block /\ block.type = "tool_use" /\ block.pieces = <<>>
        BY <1>blocks, NewBlockTyped
    <1>given. data.id = block.id /\ data.name = block.name
        BY DEF NewBlock
    <1> HIDE DEF block
    <1>role. begun = TRUE
        BY <1>1, <1>2 DEF AnthropicSound, Unfinished
    <1>5. after = AnthropicAnswer(begun, Append(blocks, block), stop, input, cached, output, n)
        <2>1. answer = AnthropicAnswer(begun, blocks, stop, input, cached, output, n)
            BY <1>2
        <2> QED
            BY <2>1, AnswerGainsBlock
    <1> DEFINE chunk == CallStart(k, data.id, data.name, <<>>)
               more == [started EXCEPT ![m] = k]
    <1>6. k \in Nat /\ ad.index + 1 = k
        BY <1>2 DEF AnthropicSound
    <1> HIDE DEF data, after
    <1>7. LET e == AnthropicEvent(ad, "content_block_start", data)
          IN  /\ e.ad.role = TRUE /\ e.ad.index = k /\ e.ad.started = more
              /\ e.chunks = <<chunk>>
        BY <1>2, <1>3, <1>6, ToolStartEvent, ZenonT(40)
    <1>8. Reads(Assemble(view, chunk), CountChunk(counter, chunk), 1, k + 1, <<>>)
        BY <1>2, <1>6, CallRead
    <1> HIDE DEF chunk, more
    <1>9. /\ answer' = after /\ ad' = AnthropicEvent(ad, "content_block_start", data).ad
          /\ view' = Assemble(view, chunk) /\ counter' = CountChunk(counter, chunk)
        BY <1>1, <1>3, <1>7, SendsOne
    <1>10. AnthropicSound(begun, Append(blocks, block), n, k + 1, more)
        <2>1. blocks \in Seq(Block) /\ Len(blocks) \in Nat /\ m = Len(blocks) /\ MaxBlocks \in Nat
            BY <1>blocks, ExchangeAssumption
        <2>2. /\ Append(blocks, block) \in Seq(Block)
              /\ Len(Append(blocks, block)) = Len(blocks) + 1
              /\ \A b \in 1..Len(blocks) : Append(blocks, block)[b] = blocks[b]
            BY <1>4, <2>1, BlocksGrow
        <2>3. m \in 0..MaxBlocks - 1 /\ started \in [0..MaxBlocks - 1 -> Int]
            BY <1>1, <1>2, <2>1 DEF AnthropicSound
        <2>4. more \in [0..MaxBlocks - 1 -> Int]
            BY <1>6, <2>3 DEF more
        <2>5. ASSUME NEW b \in 1..Len(Append(blocks, block)),
                     Append(blocks, block)[b].type = "tool_use"
              PROVE  more[b - 1] \in 0..(k + 1) - 1
            <3>1. CASE b = Len(blocks) + 1
                BY <1>6, <2>1, <2>3, <3>1 DEF more
            <3>2. CASE b \in 1..Len(blocks)
                <4>1. started[b - 1] \in 0..k - 1
                    BY <1>2, <2>2, <2>5, <3>2 DEF AnthropicSound
                <4>2. b - 1 # m /\ b - 1 \in 0..MaxBlocks - 1
                    BY <1>1, <2>1, <3>2
                <4>3. more[b - 1] = started[b - 1]
                    BY <2>3, <4>2 DEF more
                <4> QED
                    BY <1>6, <4>1, <4>3
            <3> QED
                BY <2>1, <2>2, <2>5, <3>1, <3>2
        <2> DEFINE all == Append(blocks, block)
        <2>6. Len(all) <= MaxBlocks /\ all \in Seq(Block)
            BY <1>1, <1>0, <1>2, <2>1, <2>2
        <2>7. \A b \in 1..Len(all) : all[b].type = "tool_use" => more[b - 1] \in 0..(k + 1) - 1
            BY <2>5
        <2> HIDE DEF all
        <2>8. k + 1 \in Nat
            BY <1>6
        <2>9. AnthropicSound(begun, all, n, k + 1, more)
            BY <1>2, <2>4, <2>6, <2>7, <2>8 DEF AnthropicSound
        <2> QED
            BY <2>9 DEF all
    <1>11. AnthropicAnswered(begun, Append(blocks, block), n)'
        BY <1>5, <1>9 DEF AnthropicAnswered
    <1>12. AnthropicRead(begun, k + 1, more)'
        <2>1. ad'.role = TRUE /\ ad'.index = (k + 1) - 1 /\ ad'.started = more
            BY <1>6, <1>7, <1>9
        <2>2. Reads(view', counter', 1, k + 1, <<>>)
            BY <1>8, <1>9
        <2> QED
            BY <1>role, <2>1, <2>2 DEF AnthropicRead
    <1>inv. AnthropicInv'
        BY <1>10, <1>11, <1>12 DEF AnthropicInv
    <1>agree. AnthropicAgree'
        <2>1. BlocksRead(view, blocks, ad.started) /\ CountsTold(ad, stop, input, cached, output)
            BY <1>1, <1>2, AgreeFound DEF Unfinished, Streaming
        <2> DEFINE l == AnthropicEvent(ad, "content_block_start", data).ad
        <2>2. l.prompt = ad.prompt /\ l.completion = ad.completion /\ l.stop = ad.stop
            BY EventCounts
        <2>3. l.started = more
            BY <1>7
        <2>4. PICK v : v = Assemble(view, chunk)
            OBVIOUS
        <2>5. ad' = l /\ view' = v
            BY <1>9, <2>4
        <2> HIDE DEF l
        <2>6. CountsTold(l, stop, input, cached, output)
            BY <2>1, <2>2 DEF CountsTold
        <2>7. /\ BlocksRead(view, blocks, started) /\ started \in [0..MaxBlocks - 1 -> Int]
              /\ Len(blocks) < MaxBlocks
            BY <1>1, <1>2, <1>blocks, <2>1 DEF AnthropicSound
        <2>8. more = [started EXCEPT ![Len(blocks)] = k]
            BY <1>blocks DEF more
        <2>9. chunk = CallStart(k, block.id, block.name, <<>>)
            BY <1>given DEF chunk
        <2>10. BlocksRead(Assemble(view, CallStart(k, block.id, block.name, <<>>)),
                          Append(blocks, block), [started EXCEPT ![Len(blocks)] = k])
            BY <1>2, <1>4, <1>6, <1>blocks, <2>7, ToolBlockRead
        <2>11. BlocksRead(v, Append(blocks, block), l.started)
            BY <2>3, <2>4, <2>8, <2>9, <2>10
        <2>12. answer' = AnthropicAnswer(begun, Append(blocks, block), stop, input, cached, output, n)
            BY <1>5, <1>9
        <2> QED
            BY <2>5, <2>6, <2>11, <2>12, AgreeNext
    <1> QED
        BY <1>inv, <1>agree

\* The chunk of a delta is in its place: a call's arguments go to a call begun before.
LEMMA DeltaRead ==
    ASSUME NEW l, NEW data, NEW sort \in {"text", "thinking", "tool_use"},
           NEW p \in PieceNumber, NEW k \in Nat, NEW v, NEW c,
           data.delta = DeltaOf(sort), data.piece = p,
           sort = "tool_use" => l.started[data.index] \in 0..k - 1,
           Reads(v, c, 1, k, <<>>)
    PROVE  Reads(Assemble(v, DeltaChunk(l, data)), CountChunk(c, DeltaChunk(l, data)), 1, k, <<>>)
    <1>1. CASE sort = "text"
        <2>1. data.delta = "text_delta"
            BY <1>1 DEF DeltaOf
        <2>2. DeltaChunk(l, data) = Content(p)
            BY <2>1 DEF DeltaChunk
        <2> QED
            BY <2>2, ContentRead
    <1>2. CASE sort = "thinking"
        <2>1. data.delta = "thinking_delta"
            BY <1>2 DEF DeltaOf
        <2>2. DeltaChunk(l, data) = Reasoning(p)
            BY <2>1 DEF DeltaChunk
        <2> QED
            BY <2>2, ReasoningRead
    <1>3. CASE sort = "tool_use"
        <2>1. data.delta = "input_json_delta"
            BY <1>3 DEF DeltaOf
        <2>2. CallOfBlock(l, data.index) \in 0..k - 1
            BY <1>3 DEF CallOfBlock
        <2>3. DeltaChunk(l, data) = CallArgs(CallOfBlock(l, data.index), p)
            BY <2>1 DEF DeltaChunk
        <2> QED
            BY <2>2, <2>3, ArgsRead
    <1> QED
        BY <1>1, <1>2, <1>3

\* A piece of text, of thoughts or of arguments.
LEMMA BlockDeltaStep ==
    ASSUME AnthropicInv, AnthropicAgree, NEW b \in 1..MaxBlocks, BlockDelta(b)
    PROVE  AnthropicInv' /\ AnthropicAgree'
    <1>0. PICK p : p = Piece
        OBVIOUS
    <1>sort. PICK sort : sort = answer.blocks[b].type
        OBVIOUS
    <1> DEFINE data == [type |-> "content_block_delta", index |-> b - 1,
                        delta |-> DeltaOf(sort), piece |-> p]
               after == GainsPiece(answer, b, p)
    <1>1. /\ Unfinished /\ b \in DOMAIN answer.blocks /\ Fresh(1)
          /\ AnthropicSends(data, after, TRUE)
        BY <1>0, <1>sort DEF BlockDelta, GainsPiece
    <1>later. \A c \in b + 1..Len(answer.blocks) : answer.blocks[c].type # answer.blocks[b].type
                 \/ answer.blocks[b].type = "tool_use"
        BY DEF BlockDelta
    <1>2. PICK begun, blocks, n, k, started, stop, input, cached, output :
              /\ AnthropicSound(begun, blocks, n, k, started)
              /\ answer = AnthropicAnswer(begun, blocks, stop, input, cached, output, n)
              /\ answer.begun = begun /\ answer.blocks = blocks /\ answer.pieces = n
              /\ AnthropicRead(begun, k, started)
              /\ ad.role = TRUE /\ ad.index = k - 1 /\ ad.started = started
              /\ Reads(view, counter, 1, k, <<>>)
        BY <1>1, UnfinishedFound
    <1>role. begun = TRUE
        BY <1>1, <1>2 DEF AnthropicSound, Unfinished
    <1>sound. AnthropicSound(begun, blocks, n, k, started)
        BY <1>2
    <1>blocks. blocks \in Seq(Block) /\ b \in 1..Len(blocks) /\ sort = blocks[b].type
        <2>1. blocks \in Seq(Block)
            BY <1>2 DEF AnthropicSound
        <2>2. answer.blocks = blocks
            BY <1>2
        <2> QED
            BY <1>1, <1>sort, <2>1, <2>2
    <1>p. p \in PieceNumber
        <2>1. answer.pieces = n
            BY <1>2
        <2>2. n \in 0..MaxPieces
            BY <1>sound DEF AnthropicSound
        <2>3. p = n + 1 /\ n + 1 <= MaxPieces /\ MaxPieces \in Nat
            BY <1>0, <1>1, <2>1, ExchangeAssumption DEF Piece, Fresh
        <2> QED
            BY <2>2, <2>3 DEF PieceNumber
    <1>s. /\ sort \in {"text", "thinking", "tool_use"} /\ k \in Nat
          /\ sort = "tool_use" => started[b - 1] \in 0..k - 1
        <2>1. blocks[b] \in Block
            BY <1>blocks
        <2> QED
            BY <1>sound, <1>blocks, <2>1 DEF AnthropicSound, Block
    <1>3. /\ data.type = "content_block_delta" /\ data.index = b - 1
          /\ data.delta = DeltaOf(sort) /\ data.piece = p
        OBVIOUS
    <1>4. after = AnthropicAnswer(begun, MorePieces(blocks, b, p), stop, input, cached, output, p)
        <2>1. answer = AnthropicAnswer(begun, blocks, stop, input, cached, output, n)
            BY <1>2
        <2> QED
            BY <2>1, AnswerGainsPiece
    <1>5. PICK chunk : chunk = DeltaChunk(ad, data)
        OBVIOUS
    <1> HIDE DEF data, after
    <1>6. LET e == AnthropicEvent(ad, "content_block_delta", data)
          IN  /\ e.ad.role = TRUE /\ e.ad.index = ad.index /\ e.ad.started = ad.started
              /\ e.chunks = <<chunk>>
        BY <1>2, <1>5, BlockDeltaEvent
    <1>7. Reads(Assemble(view, chunk), CountChunk(counter, chunk), 1, k, <<>>)
        BY <1>2, <1>3, <1>5, <1>p, <1>s, DeltaRead
    <1>8. /\ answer' = after /\ ad' = AnthropicEvent(ad, "content_block_delta", data).ad
          /\ view' = Assemble(view, chunk) /\ counter' = CountChunk(counter, chunk)
        BY <1>1, <1>3, <1>6, SendsOne
    <1> DEFINE more == MorePieces(blocks, b, p)
    <1>9. /\ more \in Seq(Block) /\ Len(more) = Len(blocks)
          /\ \A c \in 1..Len(blocks) : more[c].type = blocks[c].type
        BY <1>blocks, <1>p, PiecesGrow
    <1>10. p \in 0..MaxPieces
        BY <1>p, ExchangeAssumption DEF PieceNumber
    <1>11. AnthropicAnswered(begun, more, p)'
        BY <1>4, <1>8 DEF AnthropicAnswered
    <1> HIDE DEF more
    <1>12. AnthropicSound(begun, more, p, k, started)
        BY <1>sound, <1>9, <1>10 DEF AnthropicSound
    <1>13. AnthropicRead(begun, k, started)'
        <2>1. ad'.role = TRUE /\ ad'.index = k - 1 /\ ad'.started = started
            BY <1>2, <1>6, <1>8
        <2>2. Reads(view', counter', 1, k, <<>>)
            BY <1>7, <1>8
        <2> QED
            BY <1>role, <2>1, <2>2 DEF AnthropicRead
    <1>inv. AnthropicInv'
        BY <1>11, <1>12, <1>13 DEF AnthropicInv
    <1>agree. AnthropicAgree'
        <2>1. BlocksRead(view, blocks, ad.started) /\ CountsTold(ad, stop, input, cached, output)
            BY <1>1, <1>2, AgreeFound DEF Unfinished, Streaming
        <2> DEFINE l == AnthropicEvent(ad, "content_block_delta", data).ad
        <2>2. l.prompt = ad.prompt /\ l.completion = ad.completion /\ l.stop = ad.stop
            BY EventCounts
        <2>3. l.started = ad.started
            BY <1>6
        <2>4. PICK v, v2 : v = view /\ v2 = Assemble(view, chunk)
            OBVIOUS
        <2>5. ad' = l /\ view' = v2
            BY <1>8, <2>4
        <2> HIDE DEF l
        <2>6. CountsTold(l, stop, input, cached, output)
            BY <2>1, <2>2 DEF CountsTold
        <2>7. PICK h : h = Len(BlocksTold(blocks)[b - 1].calls)
            OBVIOUS
        <2>8. \A c \in b + 1..Len(blocks) : blocks[c].type # sort \/ sort = "tool_use"
            BY <1>2, <1>sort, <1>later
        <2>9. BlocksRead(v, blocks, started) /\ ad.started = started
            BY <1>2, <2>1, <2>4
        <2>10. sort = "tool_use" => h \in 0..k - 1 /\ ad.started[data.index] = h
            <3> SUFFICES ASSUME sort = "tool_use"
                         PROVE  h \in 0..k - 1 /\ ad.started[data.index] = h
                OBVIOUS
            <3>1. PICK f : f = BlocksTold(blocks)
                OBVIOUS
            <3>2. /\ \A i \in 0..Len(blocks) : Len(f[i].calls) \in Nat
                  /\ \A i \in 1..Len(blocks) :
                        Len(f[i].calls) = Len(f[i - 1].calls) + OneIfTool(blocks[i])
                BY <1>blocks, <3>1, CallsGrow
            <3>3. OneIfTool(blocks[b]) = 1
                BY <1>blocks DEF OneIfTool
            <3>4. Len(f[b].calls) = h + 1 /\ h \in Nat
                BY <1>blocks, <2>7, <3>1, <3>2, <3>3
            <3>5. started[b - 1] + 1 = Len(f[b].calls)
                BY <1>blocks, <2>9, <3>1 DEF BlocksRead
            <3>6. started[b - 1] \in 0..k - 1
                BY <1>s
            <3> QED
                BY <1>3, <1>s, <2>9, <3>4, <3>5, <3>6
        <2>11. ToldBy(Assemble(v, DeltaChunk(ad, data))) = WithPiece(ToldBy(v), sort, h, p)
            BY <1>2, <1>3, <1>p, <1>s, <2>4, <2>10, PieceTold
        <2>12. BlocksRead(v2, MorePieces(blocks, b, p), started)
            BY <1>5, <1>blocks, <1>p, <2>4, <2>7, <2>8, <2>9, <2>11, PieceBlockRead
        <2>13. BlocksRead(v2, more, l.started)
            BY <2>3, <2>9, <2>12 DEF more
        <2>14. answer' = AnthropicAnswer(begun, more, stop, input, cached, output, p)
            BY <1>4, <1>8 DEF more
        <2> QED
            BY <2>5, <2>6, <2>13, <2>14, AgreeNext
    <1> QED
        BY <1>inv, <1>agree

\* The reason for the end and the usage: no chunk.
LEMMA MessageDeltaStep ==
    ASSUME AnthropicInv, AnthropicAgree, NEW why, NEW last \in Nat \cup {-1}, NEW ended \in BOOLEAN,
           MessageDelta(why, last, ended)
    PROVE  AnthropicInv' /\ AnthropicAgree'
    <1> DEFINE data == [type |-> "message_delta", stop |-> why,
                        usage |-> [input |-> last, output |-> 1]]
               after == Stops(answer, why, last)
    <1>1. Unfinished /\ AnthropicSends(data, after, ended)
        BY DEF MessageDelta, Stops
    <1>2. PICK begun, blocks, n, k, started, stop, input, cached, output :
              /\ AnthropicSound(begun, blocks, n, k, started)
              /\ answer = AnthropicAnswer(begun, blocks, stop, input, cached, output, n)
              /\ answer.begun = begun /\ answer.blocks = blocks /\ answer.pieces = n
              /\ AnthropicRead(begun, k, started)
              /\ ad.role = TRUE /\ ad.index = k - 1 /\ ad.started = started
              /\ Reads(view, counter, 1, k, <<>>)
        BY <1>1, UnfinishedFound
    <1>role. begun = TRUE
        BY <1>1, <1>2 DEF AnthropicSound, Unfinished
    <1>sound. AnthropicSound(begun, blocks, n, k, started)
        BY <1>2
    <1>3. /\ data.type = "message_delta" /\ data.stop = why
          /\ data.usage.input = last /\ data.usage.output = 1
        OBVIOUS
    <1>4. PICK j : /\ j = (IF last = -1 THEN input ELSE last)
                   /\ after = AnthropicAnswer(begun, blocks, why, j, cached, 1, n)
        <2>1. answer = AnthropicAnswer(begun, blocks, stop, input, cached, output, n)
            BY <1>2
        <2> QED
            BY <2>1, AnswerStops
    <1> HIDE DEF data, after
    <1>5. LET e == AnthropicEvent(ad, "message_delta", data)
          IN  /\ e.ad.role = TRUE /\ e.ad.index = ad.index /\ e.ad.started = ad.started
              /\ e.chunks = <<>>
        BY <1>2, MessageDeltaEvent
    <1>6. /\ answer' = after /\ ad' = AnthropicEvent(ad, "message_delta", data).ad
          /\ view' = view /\ counter' = counter
        BY <1>1, <1>3, <1>5, SendsOne
    <1>7. AnthropicAnswered(begun, blocks, n)'
        BY <1>4, <1>6 DEF AnthropicAnswered
    <1>8. AnthropicRead(begun, k, started)'
        <2>1. ad'.role = TRUE /\ ad'.index = k - 1 /\ ad'.started = started
            BY <1>2, <1>5, <1>6
        <2>2. Reads(view', counter', 1, k, <<>>)
            BY <1>2, <1>6
        <2> QED
            BY <1>role, <2>1, <2>2 DEF AnthropicRead
    <1>inv. AnthropicInv'
        BY <1>sound, <1>7, <1>8 DEF AnthropicInv
    <1>agree. AnthropicAgree'
        <2>1. BlocksRead(view, blocks, ad.started) /\ CountsTold(ad, stop, input, cached, output)
            BY <1>1, <1>2, AgreeFound DEF Unfinished, Streaming
        <2> DEFINE l == AnthropicEvent(ad, "message_delta", data).ad
        <2>2. /\ l.prompt = PromptOnce(ad, data.usage) /\ l.stop = data.stop
              /\ data.usage.output # -1 => l.completion = data.usage.output
            BY EventCounts
        <2>3. l.started = ad.started
            BY <1>5
        <2>4. PICK v : v = view
            OBVIOUS
        <2>5. ad' = l /\ view' = v
            BY <1>6, <2>4
        <2> HIDE DEF l
        <2>6. last = -1 \/ last = input \/ input + cached = 0
            <3>1. /\ last = -1 \/ last = answer.usage.input
                     \/ answer.usage.input + answer.usage.cached = 0
                  /\ answer = AnthropicAnswer(begun, blocks, stop, input, cached, output, n)
                BY <1>2 DEF MessageDelta
            <3> QED
                BY <3>1, AnswerFields
        <2>7. CountsTold(l, why, j, cached, 1)
            <3>1. PICK u : u = data.usage
                OBVIOUS
            <3>2. /\ u.input = last /\ l.stop = why /\ l.completion = 1
                  /\ l.prompt = PromptOnce(ad, u)
                BY <1>3, <2>2, <3>1
            <3> QED
                BY <1>4, <2>1, <2>6, <3>2, PromptCounted
        <2>8. BlocksRead(v, blocks, l.started)
            BY <2>1, <2>3, <2>4
        <2>9. answer' = AnthropicAnswer(begun, blocks, why, j, cached, 1, n)
            BY <1>4, <1>6
        <2> QED
            BY <2>5, <2>7, <2>8, <2>9, AgreeNext
    <1> QED
        BY <1>inv, <1>agree

-----------------------------------------------------------------------------
(***************************************************************************)
(* Gemini.  A payload brings a list of parts; what the client has read     *)
(* after each of them follows from what it had read before.                *)
(***************************************************************************)
\* The kinds of a part, and a part whose piece is one of the answer's.
PartKind == {"text", "thought", "functionCall", "images", "audio"}

Typed(parts) ==
    \A i \in 1..Len(parts) : parts[i].kind \in PartKind /\ parts[i].piece \in PieceNumber

OneIfCall(entry) == IF entry.kind = "functionCall" THEN 1 ELSE 0

LEMMA CallsCounted ==
    ASSUME NEW parts, Len(parts) \in Nat
    PROVE  /\ CallsBefore(parts, 0) = 0
           /\ \A i \in 0..Len(parts) : CallsBefore(parts, i) \in Nat
           /\ \A i \in 1..Len(parts) :
                 CallsBefore(parts, i) = CallsBefore(parts, i - 1) + OneIfCall(parts[i])
    <1> DEFINE C(n) == {i \in 1..n : parts[i].kind = "functionCall"}
    <1>1. \A n \in Nat : IsFiniteSet(C(n))
        <2> SUFFICES ASSUME NEW n \in Nat PROVE IsFiniteSet(C(n))
            OBVIOUS
        <2>1. IsFiniteSet(1..n) /\ C(n) \subseteq 1..n
            BY FS_Interval
        <2> QED
            BY <2>1, FS_Subset
    <1>2. C(0) = {}
        OBVIOUS
    <1>3. \A n : CallsBefore(parts, n) = Cardinality(C(n))
        BY DEF CallsBefore
    <1>4. CallsBefore(parts, 0) = 0
        BY <1>2, <1>3, FS_EmptySet
    <1>5. \A n \in Nat : Cardinality(C(n)) \in Nat
        BY <1>1, FS_CardinalityType
    <1>6. ASSUME NEW i \in 1..Len(parts)
          PROVE  CallsBefore(parts, i) = CallsBefore(parts, i - 1) + OneIfCall(parts[i])
        <2>1. i \in Nat /\ i - 1 \in Nat /\ i \notin C(i - 1)
            OBVIOUS
        <2>2. CASE parts[i].kind = "functionCall"
            <3>1. C(i) = C(i - 1) \cup {i}
                BY <2>2
            <3> HIDE DEF C
            <3>2. Cardinality(C(i - 1) \cup {i}) = Cardinality(C(i - 1)) + 1
                BY <1>1, <2>1, FS_AddElement
            <3> QED
                BY <1>3, <2>2, <3>1, <3>2 DEF OneIfCall
        <2>3. CASE parts[i].kind # "functionCall"
            <3>1. C(i) = C(i - 1)
                BY <2>3
            <3> HIDE DEF C
            <3>2. Cardinality(C(i - 1)) \in Nat
                BY <1>5, <2>1
            <3> QED
                BY <1>3, <2>3, <3>1, <3>2 DEF OneIfCall
        <2> QED
            BY <2>2, <2>3
    <1> HIDE DEF C
    <1> QED
        BY <1>3, <1>4, <1>5, <1>6

\* One part: a call bears the next index, the others leave the calls as they are.
LEMMA PartRead ==
    ASSUME NEW v, NEW c, NEW k \in Nat, NEW entry, NEW m,
           entry.kind \in PartKind, entry.piece \in PieceNumber,
           m = k + OneIfCall(entry), Reads(v, c, 1, k, <<>>)
    PROVE  LET chunk == PartChunk(entry, m - 1)
           IN  Reads(Assemble(v, chunk), CountChunk(c, chunk), 1, m, <<>>)
    <1>1. CASE entry.kind = "text"
        <2>1. PartChunk(entry, m - 1) = Content(entry.piece)
            BY <1>1 DEF PartChunk
        <2>2. m = k
            BY <1>1 DEF OneIfCall
        <2> QED
            BY <2>1, <2>2, ContentRead
    <1>2. CASE entry.kind = "thought"
        <2>1. PartChunk(entry, m - 1) = Reasoning(entry.piece)
            BY <1>2 DEF PartChunk
        <2>2. m = k
            BY <1>2 DEF OneIfCall
        <2> QED
            BY <2>1, <2>2, ReasoningRead
    <1>3. CASE entry.kind = "functionCall"
        <2>1. PartChunk(entry, m - 1) =
                 CallStart(m - 1, CallOf(entry, m - 1).id, entry.name, entry.args)
            BY <1>3 DEF PartChunk
        <2>2. m = k + 1 /\ m - 1 = k
            BY <1>3 DEF OneIfCall
        <2> QED
            BY <2>1, <2>2, CallRead
    <1>4. CASE entry.kind \in {"images", "audio"}
        <2>1. PartChunk(entry, m - 1) = Media(entry.kind, entry.piece)
            BY <1>4 DEF PartChunk
        <2>2. m = k
            BY <1>4 DEF OneIfCall
        <2> QED
            BY <1>4, <2>1, <2>2, MediaRead
    <1> QED
        BY <1>1, <1>2, <1>3, <1>4 DEF PartKind

\* What it tells is what its chunk adds.
LEMMA PartTold ==
    ASSUME NEW v, NEW c, NEW k \in Nat, NEW entry, NEW m, entry.kind \in PartKind,
           m = k + OneIfCall(entry), Reads(v, c, 1, k, <<>>)
    PROVE  ToldBy(Assemble(v, PartChunk(entry, m - 1))) = AfterPart(ToldBy(v), entry)
    <1>0. PICK t : t = ToldBy(v)
        OBVIOUS
    <1>1. CASE entry.kind = "text"
        <2>1. PartChunk(entry, m - 1) = Content(entry.piece)
            BY <1>1 DEF PartChunk
        <2>2. AfterPart(t, entry) = [t EXCEPT !.content = Append(t.content, entry.piece)]
            BY <1>1 DEF AfterPart
        <2>3. \A p : ToldBy(Assemble(v, Content(p))) = [t EXCEPT !.content = Append(t.content, p)]
            BY <1>0, ChunkTold
        <2> QED
            BY <1>0, <2>1, <2>2, <2>3
    <1>2. CASE entry.kind = "thought"
        <2>1. PartChunk(entry, m - 1) = Reasoning(entry.piece)
            BY <1>2 DEF PartChunk
        <2>2. AfterPart(t, entry) = [t EXCEPT !.reasoning = Append(t.reasoning, entry.piece)]
            BY <1>2 DEF AfterPart
        <2>3. \A p : ToldBy(Assemble(v, Reasoning(p))) = [t EXCEPT !.reasoning = Append(t.reasoning, p)]
            BY <1>0, ChunkTold
        <2> QED
            BY <1>0, <2>1, <2>2, <2>3
    <1>3. CASE entry.kind = "functionCall"
        <2>1. m - 1 = k
            BY <1>3 DEF OneIfCall
        <2>2. PartChunk(entry, k) = CallStart(k, CallOf(entry, k).id, entry.name, entry.args)
            BY <1>3 DEF PartChunk
        <2>3. AfterPart(t, entry) =
                 [t EXCEPT !.calls = Append(t.calls, CallOf(entry, Len(t.calls)))]
            BY <1>3 DEF AfterPart
        <2>4. CallOf(entry, k) =
                 [id |-> CallOf(entry, k).id, name |-> entry.name, args |-> entry.args]
            BY DEF CallOf
        <2>5. /\ \A id, name, args :
                    ToldBy(Assemble(v, CallStart(k, id, name, args))) =
                    [t EXCEPT !.calls =
                        Append(t.calls, [id |-> id, name |-> name, args |-> args])]
              /\ Len(t.calls) = k
            BY <1>0, ChunkTold
        <2>6. PICK id, name, args : /\ id = CallOf(entry, k).id /\ name = entry.name
                                    /\ args = entry.args
            OBVIOUS
        <2>7. CallOf(entry, k) = [id |-> id, name |-> name, args |-> args]
            BY <2>4, <2>6
        <2>8. PartChunk(entry, m - 1) = CallStart(k, id, name, args)
            BY <2>1, <2>2, <2>6
        <2>9. AfterPart(t, entry) =
                 [t EXCEPT !.calls = Append(t.calls, [id |-> id, name |-> name, args |-> args])]
            BY <2>3, <2>5, <2>7
        <2> QED
            BY <1>0, <2>5, <2>8, <2>9
    <1>4. CASE entry.kind = "images"
        <2>1. PartChunk(entry, m - 1) = Media("images", entry.piece)
            BY <1>4 DEF PartChunk
        <2>2. AfterPart(t, entry) = [t EXCEPT !.images = Append(t.images, entry.piece)]
            BY <1>4 DEF AfterPart
        <2> QED
            BY <1>0, <2>1, <2>2, ChunkTold
    <1>5. CASE entry.kind = "audio"
        <2>1. PartChunk(entry, m - 1) = Media("audio", entry.piece)
            BY <1>5 DEF PartChunk
        <2>2. AfterPart(t, entry) = [t EXCEPT !.audio = <<entry.piece>>]
            BY <1>5 DEF AfterPart
        <2> QED
            BY <1>0, <2>1, <2>2, ChunkTold
    <1> QED
        BY <1>1, <1>2, <1>3, <1>4, <1>5 DEF PartKind

\* Parts that follow q others tell what those tell, and then themselves.
Follows(told, q, parts) ==
    \A i \in 1..Len(parts) : told[q + i] = AfterPart(told[q + (i - 1)], parts[i])

LEMMA PartsJoined ==
    ASSUME NEW U, NEW old \in Seq(U), NEW T, NEW parts \in Seq(T)
    PROVE  /\ Len(old) \in Nat /\ old \o parts \in Seq(U \cup T)
           /\ Len(old \o parts) = Len(old) + Len(parts)
           /\ PartsTold(old \o parts)[Len(old)] = PartsTold(old)[Len(old)]
           /\ Follows(PartsTold(old \o parts), Len(old), parts)
    <1> DEFINE all == old \o parts
    <1>0. PICK q, told : q = Len(old) /\ told = PartsTold(all)
        OBVIOUS
    <1>1. PICK n \in Nat : n = Len(parts)
        OBVIOUS
    <1>q. q \in Nat
        BY <1>0
    <1>2. old \in Seq(U \cup T) /\ parts \in Seq(U \cup T)
        BY SeqMonotonic
    <1>3. /\ all \in Seq(U \cup T) /\ Len(all) = q + n
          /\ \A i \in 1..q + n : all[i] = IF i <= q THEN old[i] ELSE parts[i - q]
        BY <1>0, <1>1, <1>2, ConcatProperties
    <1>told. told = PartsTold(all)
        BY <1>0
    <1> HIDE DEF all
    <1>4. /\ Len(all) \in Nat /\ Len(old) \in Nat /\ q <= Len(all) /\ q <= Len(old)
          /\ \A i \in 1..q : all[i] = old[i]
        BY <1>0, <1>1, <1>3, <1>q
    <1>5. \A i \in 0..q : told[i] = PartsTold(old)[i]
        <2>1. \A i \in 0..q : PartsTold(all)[i] = PartsTold(old)[i]
            BY <1>4, <1>q, PartsAlike
        <2> QED
            BY <1>told, <2>1
    <1>6. \A i \in 1..q + n : told[i] = AfterPart(told[i - 1], all[i])
        <2>1. \A i \in 1..Len(all) : PartsTold(all)[i] = AfterPart(PartsTold(all)[i - 1], all[i])
            BY <1>4, PartsStep
        <2> QED
            BY <1>3, <1>told, <2>1
    <1>7. ASSUME NEW i \in 1..n
          PROVE  told[q + i] = AfterPart(told[q + (i - 1)], parts[i])
        <2>1. q + i \in 1..q + n /\ ~(q + i <= q) /\ (q + i) - q = i /\ (q + i) - 1 = q + (i - 1)
            BY <1>1, <1>q
        <2> QED
            BY <1>3, <1>6, <2>1
    <1>8. told[q] = PartsTold(old)[q] /\ Follows(told, q, parts)
        BY <1>1, <1>5, <1>7, <1>q DEF Follows
    <1> QED
        BY <1>0, <1>1, <1>3, <1>8, <1>q DEF all

LEMMA ChunksListed ==
    ASSUME NEW T, NEW parts \in Seq(T), NEW l
    PROVE  LET own == PartChunks(l, parts)
               n == Len(parts)
           IN  /\ Len(own) = n
               /\ \A i \in 1..n : own[i] = PartChunk(parts[i], l.index + CallsBefore(parts, i))
               /\ own \in Seq({own[i] : i \in 1..n})
    <1> DEFINE own == PartChunks(l, parts)
               n == Len(parts)
    <1>1. n \in Nat /\ DOMAIN parts = 1..n
        OBVIOUS
    <1>2. /\ Len(own) = n
          /\ \A i \in 1..n : own[i] = PartChunk(parts[i], l.index + CallsBefore(parts, i))
          /\ own \in Seq({own[i] : i \in 1..n})
        <2>1. own = [i \in 1..n |-> PartChunk(parts[i], l.index + CallsBefore(parts, i))]
            BY <1>1 DEF PartChunks
        <2> HIDE DEF own
        <2>2. DOMAIN own = 1..n /\ own \in [1..n -> {own[i] : i \in 1..n}]
            BY <2>1
        <2>3. own \in Seq({own[i] : i \in 1..n})
            BY <1>1, <2>2
        <2>4. Len(own) = n
            BY <1>1, <2>2, <2>3
        <2> QED
            BY <2>1, <2>3, <2>4
    <1> QED
        BY <1>2

LEMMA TakenNext ==
    ASSUME NEW v, NEW c, NEW chunks, Len(chunks) \in Nat, NEW i \in 1..Len(chunks)
    PROVE  Takings(v, c, chunks)[i] = AfterChunk(Takings(v, c, chunks)[i - 1], chunks[i])
    <1>1. /\ Takings(v, c, chunks)[0] = [view |-> v, counter |-> c]
          /\ \A j \in 1..Len(chunks) :
                Takings(v, c, chunks)[j] = AfterChunk(Takings(v, c, chunks)[j - 1], chunks[j])
        BY TakingsStep
    <1> QED
        BY <1>1

\* All parts, after what has been delivered before them.
LEMMA PartsRead ==
    ASSUME NEW S, NEW before \in Seq(S), NEW T, NEW parts \in Seq(T), Typed(parts),
           NEW l, NEW k \in Nat, l.index = k - 1, NEW v, NEW c,
           NEW q \in Nat, NEW told, Follows(told, q, parts),
           LET all == Takings(v, c, before \o PartChunks(l, parts))[Len(before)]
           IN  Reads(all.view, all.counter, 1, k, <<>>) /\ ToldBy(all.view) = told[q]
    PROVE  LET chunks == before \o PartChunks(l, parts)
               all == Takings(v, c, chunks)[Len(chunks)]
           IN  /\ Reads(all.view, all.counter, 1, k + CallsBefore(parts, Len(parts)), <<>>)
               /\ ToldBy(all.view) = told[q + Len(parts)]
    <1> DEFINE own == PartChunks(l, parts)
               list == before \o own
               n == Len(parts)
               r == Len(before)
               took == Takings(v, c, list)
               count(i) == k + CallsBefore(parts, i)
               Good(i) == /\ Reads(took[r + i].view, took[r + i].counter, 1, count(i), <<>>)
                          /\ ToldBy(took[r + i].view) = told[q + i]
               Bad == {i \in 0..n : ~Good(i)}
    <1>1. n \in Nat /\ r \in Nat /\ DOMAIN parts = 1..n
        OBVIOUS
    <1>2. /\ Len(own) = n
          /\ \A i \in 1..n : own[i] = PartChunk(parts[i], l.index + CallsBefore(parts, i))
          /\ own \in Seq({own[i] : i \in 1..n})
        BY ChunksListed
    <1> HIDE DEF own, n, r
    <1>3. /\ Len(list) = r + n /\ \A i \in 1..n : list[r + i] = own[i]
        <2>1. before \in Seq(S \cup {own[i] : i \in 1..n})
            BY SeqMonotonic
        <2>2. own \in Seq(S \cup {own[i] : i \in 1..n})
            BY <1>2, SeqMonotonic
        <2>3. /\ Len(list) = r + n
              /\ \A i \in 1..r + n : list[i] = IF i <= r THEN before[i] ELSE own[i - r]
            <3>1. /\ Len(list) = Len(before) + Len(own)
                  /\ \A i \in 1..Len(before) + Len(own) :
                        list[i] = IF i <= Len(before) THEN before[i] ELSE own[i - Len(before)]
                BY ONLY <2>1, <2>2, ConcatProperties
            <3> HIDE DEF list
            <3> QED
                BY <1>2, <3>1 DEF r
        <2> HIDE DEF list
        <2>4. \A i \in 1..n : r + i \in 1..r + n /\ ~(r + i <= r) /\ (r + i) - r = i
            BY <1>1
        <2> QED
            BY <2>3, <2>4
    <1> HIDE DEF list
    <1>4. \A i \in 1..Len(list) : took[i] = AfterChunk(took[i - 1], list[i])
        <2>1. Len(list) \in Nat
            BY <1>1, <1>3
        <2> SUFFICES ASSUME NEW i \in 1..Len(list)
                     PROVE  took[i] = AfterChunk(took[i - 1], list[i])
            OBVIOUS
        <2>2. Takings(v, c, list)[i] = AfterChunk(Takings(v, c, list)[i - 1], list[i])
            BY <2>1, TakenNext
        <2> QED
            BY <2>2
    <1>5. /\ CallsBefore(parts, 0) = 0
          /\ \A i \in 0..n : CallsBefore(parts, i) \in Nat
          /\ \A i \in 1..n : CallsBefore(parts, i) = CallsBefore(parts, i - 1) + OneIfCall(parts[i])
        BY <1>1, CallsCounted DEF n
    <1>told. \A i \in 1..n : told[q + i] = AfterPart(told[q + (i - 1)], parts[i])
        BY DEF Follows, n
    <1>6. Good(0)
        <2>1. r + 0 = r /\ q + 0 = q /\ count(0) = k
            BY <1>1, <1>5
        <2>2. Reads(took[r].view, took[r].counter, 1, k, <<>>) /\ ToldBy(took[r].view) = told[q]
            BY DEF r, list, own
        <2> HIDE DEF took, count
        <2> QED
            BY <2>1, <2>2
    <1> HIDE DEF took
    <1>7. ASSUME NEW i \in 1..n, Good(i - 1)
          PROVE  Good(i)
        <2>1. /\ r + i \in 1..Len(list) /\ (r + i) - 1 = r + (i - 1)
              /\ i - 1 \in 0..n /\ i \in 0..n
            BY <1>1, <1>3
        <2>2. count(i - 1) \in Nat /\ count(i) = count(i - 1) + OneIfCall(parts[i])
              /\ l.index + CallsBefore(parts, i) = count(i) - 1
            <3>1. OneIfCall(parts[i]) \in Nat
                BY DEF OneIfCall
            <3> QED
                <4>1. /\ CallsBefore(parts, i - 1) \in Nat /\ CallsBefore(parts, i) \in Nat
                      /\ CallsBefore(parts, i) = CallsBefore(parts, i - 1) + OneIfCall(parts[i])
                    BY <1>5, <2>1
                <4>2. PICK a, b, d : /\ a = CallsBefore(parts, i - 1) /\ b = CallsBefore(parts, i)
                                     /\ d = OneIfCall(parts[i])
                    OBVIOUS
                <4>3. a \in Nat /\ b \in Nat /\ d \in Nat /\ b = a + d
                    BY <3>1, <4>1, <4>2
                <4>4. k + a \in Nat /\ k + b = (k + a) + d /\ l.index + b = (k + b) - 1
                    BY <4>3
                <4> QED
                    BY <4>2, <4>4
        <2> HIDE DEF count
        <2>3. took[r + i] = AfterChunk(took[r + (i - 1)], PartChunk(parts[i], count(i) - 1))
            BY <1>2, <1>3, <1>4, <2>1, <2>2
        <2>4. parts[i].kind \in PartKind /\ parts[i].piece \in PieceNumber
            BY DEF Typed, n
        <2> DEFINE w == took[r + (i - 1)]
                   chunk == PartChunk(parts[i], count(i) - 1)
        <2>5. Reads(w.view, w.counter, 1, count(i - 1), <<>>) /\ ToldBy(w.view) = told[q + (i - 1)]
            BY <1>7
        <2> HIDE DEF w
        <2>6. Reads(Assemble(w.view, chunk), CountChunk(w.counter, chunk), 1, count(i), <<>>)
            BY <2>2, <2>4, <2>5, PartRead
        <2>t. ToldBy(Assemble(w.view, chunk)) = AfterPart(ToldBy(w.view), parts[i])
            BY <2>2, <2>4, <2>5, PartTold
        <2> HIDE DEF chunk
        <2>7. /\ took[r + i].view = Assemble(w.view, chunk)
              /\ took[r + i].counter = CountChunk(w.counter, chunk)
            <3>1. took[r + i] = AfterChunk(w, chunk)
                BY <2>3 DEF w, chunk
            <3> QED
                BY <3>1 DEF AfterChunk
        <2>8. ToldBy(took[r + i].view) = told[q + i]
            BY <1>told, <2>5, <2>7, <2>t
        <2> QED
            BY <2>6, <2>7, <2>8
    <1> HIDE DEF Good
    <1>8. Bad = {}
        <2> SUFFICES ASSUME Bad # {} PROVE FALSE
            OBVIOUS
        <2>1. PICK i \in Bad : \A j \in Bad : i <= j
            <3>1. Bad \subseteq Nat
                BY <1>1
            <3> HIDE DEF Bad
            <3> QED
                BY <3>1, LeastNumber
        <2>2. i # 0
            BY <1>6
        <2>3. i \in 1..n /\ i - 1 \in 0..n /\ ~(i <= i - 1)
            BY <1>1, <2>2
        <2>4. Good(i - 1)
            BY <2>1, <2>3
        <2> QED
            BY <1>7, <2>3, <2>4
    <1>9. Good(n)
        BY <1>1, <1>8
    <1> QED
        BY <1>3, <1>9 DEF Good, took, list, own, n, r

\* The parts of a payload bear the numbers of the next pieces.
LEMMA PartsNamed ==
    ASSUME NEW entry \in PartKinds
    PROVE  entry.kind \in PartKind
    <1>1. CASE entry \in {[kind |-> k, name |-> ""] : k \in {"text", "thought", "images", "audio"}}
        <2>1. PICK k \in {"text", "thought", "images", "audio"} : entry = [kind |-> k, name |-> ""]
            BY <1>1, Zenon
        <2>2. entry.kind = k
            BY <2>1, Zenon
        <2> QED
            BY <2>2, Zenon DEF PartKind
    <1>2. CASE entry \in {[kind |-> "functionCall", name |-> n] : n \in ToolName}
        BY <1>2 DEF PartKind
    <1> QED
        BY <1>1, <1>2, Zenon DEF PartKinds

LEMMA PartsStamped ==
    ASSUME NEW kinds \in PartLists, NEW n \in Nat, answer.pieces = n,
           n + Len(kinds) <= MaxPieces
    PROVE  /\ Len(kinds) \in Nat /\ Len(Stamped(kinds)) = Len(kinds)
           /\ \E T : Stamped(kinds) \in Seq(T)
           /\ Typed(Stamped(kinds))
    <1> DEFINE new == Stamped(kinds)
               T == {new[i] : i \in 1..Len(kinds)}
    <1>1. kinds \in Seq(PartKinds)
        <2>1. \A p, q \in PartKinds : <<>> \in Seq(PartKinds) /\ <<p>> \in Seq(PartKinds)
                                      /\ <<p, q>> \in Seq(PartKinds)
            OBVIOUS
        <2>2. <<>> \in Seq(PartKinds)
            OBVIOUS
        <2> QED
            <3>1. CASE kinds = <<>>
                BY <2>2, <3>1
            <3>2. CASE kinds \in {<<p>> : p \in PartKinds}
                BY <2>1, <3>2
            <3>3. CASE kinds \in {<<p, q>> : p, q \in PartKinds}
                <4>1. PICK p \in PartKinds, q \in PartKinds : kinds = <<p, q>>
                    BY <3>3
                <4> QED
                    BY <2>1, <4>1
            <3> QED
                BY <3>1, <3>2, <3>3 DEF PartLists
    <1>2. /\ Len(kinds) \in Nat /\ DOMAIN kinds = 1..Len(kinds)
          /\ \A i \in 1..Len(kinds) : kinds[i] \in PartKinds
        BY <1>1
    <1>3. /\ DOMAIN new = 1..Len(kinds)
          /\ new \in [1..Len(kinds) -> T]
          /\ \A i \in 1..Len(kinds) : new[i].kind = kinds[i].kind /\ new[i].piece = n + i
        BY <1>2 DEF Stamped
    <1> HIDE DEF new
    <1>4. new \in Seq(T) /\ Len(new) = Len(kinds)
        <2>1. new \in Seq(T)
            BY <1>2, <1>3
        <2> HIDE DEF T
        <2> QED
            BY <1>2, <1>3, <2>1
    <1>5. ASSUME NEW i \in 1..Len(kinds)
          PROVE  new[i].kind \in PartKind /\ new[i].piece \in PieceNumber
        <2>1. kinds[i].kind \in PartKind
            BY <1>2, PartsNamed
        <2>2. n + i \in 1..MaxPieces
            BY <1>2, ExchangeAssumption
        <2> QED
            BY <1>3, <2>1, <2>2 DEF PieceNumber
    <1>6. Typed(new)
        BY <1>4, <1>5 DEF Typed
    <1> QED
        BY <1>2, <1>4, <1>6 DEF new

\* The adapter's locals, and what a payload makes of them.
GeminiLocals(role, i, finish, usage) ==
    [role |-> role, index |-> i, finish |-> finish, usage |-> usage]

LEMMA PayloadEmpty ==
    ASSUME NEW role, NEW i, NEW finish, NEW usage, NEW payload, ~payload.candidate
    PROVE  LET e == GeminiPayload(GeminiLocals(role, i, finish, usage), payload)
           IN  /\ e.chunks = <<>>
               /\ e.ad = GeminiLocals(role, i, finish,
                                     IF payload.usage = NoUsage THEN usage ELSE payload.usage)
    <1> DEFINE l == GeminiLocals(role, i, finish, usage)
               u == IF payload.usage = NoUsage THEN l.usage ELSE payload.usage
               e == GeminiPayload(l, payload)
    <1>1. l = [role |-> role, index |-> i, finish |-> finish, usage |-> usage] /\ l.usage = usage
        BY DEF GeminiLocals
    <1> HIDE DEF l
    <1>2. e = [ad |-> [l EXCEPT !.usage = u], chunks |-> <<>>]
        BY DEF GeminiPayload
    <1> HIDE DEF u, e
    <1>3. [l EXCEPT !.usage = u] = GeminiLocals(role, i, finish, u)
        BY <1>1 DEF GeminiLocals
    <1>4. u = IF payload.usage = NoUsage THEN usage ELSE payload.usage
        BY <1>1 DEF u
    <1> QED
        BY <1>2, <1>3, <1>4 DEF e, l

LEMMA PayloadFull ==
    ASSUME NEW l, NEW payload, payload.candidate, NEW t \in BOOLEAN, t
    PROVE  LET e == GeminiPayload(l, payload)
           IN  /\ e.chunks = (IF l.role THEN <<>> ELSE <<Role>>) \o PartChunks(l, payload.parts)
               /\ LET index == l.index + CallsBefore(payload.parts, Len(payload.parts))
                  IN  e.ad = GeminiLocals(t, index, ReasonAfter(l, payload, index),
                                IF payload.usage = NoUsage THEN l.usage ELSE payload.usage)
    <1> DEFINE usage == IF payload.usage = NoUsage THEN l.usage ELSE payload.usage
               index == l.index + CallsBefore(payload.parts, Len(payload.parts))
               finish == ReasonAfter(l, payload, index)
               chunks == (IF l.role THEN <<>> ELSE <<Role>>) \o PartChunks(l, payload.parts)
               e == GeminiPayload(l, payload)
    <1>1. e = [ad |-> [role |-> TRUE, index |-> index, usage |-> usage, finish |-> finish],
               chunks |-> chunks]
        BY DEF GeminiPayload
    <1> HIDE DEF e, usage, index, finish, chunks
    <1>2. e.ad = GeminiLocals(t, index, finish, usage) /\ e.chunks = chunks
        BY <1>1 DEF GeminiLocals
    <1> QED
        BY <1>2 DEF e, index, chunks, finish, usage

GeminiInv ==
    phase = "streaming" /\ provider = "gemini" =>
        \E role, k, finish, usage :
           /\ role \in BOOLEAN /\ k \in Nat /\ answer.pieces \in 0..MaxPieces
           /\ ad = GeminiLocals(role, k - 1, finish, usage)
           /\ Reads(view, counter, IF role THEN 1 ELSE 0, k, <<>>)

\* What the parts so far tell has been read; the adapter holds the last usage and, once
\* the upstream has given one, the reason for the end.
GeminiAgree ==
    phase = "streaming" /\ provider = "gemini" =>
        /\ \E U : answer.parts \in Seq(U)
        /\ ToldBy(view) = PartsTold(answer.parts)[Len(answer.parts)]
        /\ ad.usage = answer.usage
        /\ answer.finish = None => ad.finish = "stop"
        /\ answer.finish # None =>
              ad.finish = WithCalls(FinishReason(answer.finish), ad.index >= 0)

\* After all parts of a payload what they tell is read, and so many calls.
AllRead(all, v, k, parts) ==
    \A q, told :
       q \in Nat /\ Follows(told, q, parts) /\ ToldBy(v) = told[q] =>
          /\ Reads(all.view, all.counter, 1, k, <<>>)
          /\ ToldBy(all.view) = told[q + Len(parts)]

\* Before the parts comes the role, unless it was said.
LEMMA PayloadRead ==
    ASSUME NEW role \in BOOLEAN, NEW k \in Nat, NEW l, l.role = role, l.index = k - 1,
           NEW T, NEW parts \in Seq(T), Typed(parts), NEW v, NEW c,
           Reads(v, c, IF role THEN 1 ELSE 0, k, <<>>)
    PROVE  LET chunks == (IF l.role THEN <<>> ELSE <<Role>>) \o PartChunks(l, parts)
               all == Takings(v, c, chunks)[Len(chunks)]
           IN  AllRead(all, v, k + CallsBefore(parts, Len(parts)), parts)
    <1> DEFINE before == IF l.role THEN <<>> ELSE <<Role>>
               list == before \o PartChunks(l, parts)
               took == Takings(v, c, list)
    <1>1. \E S : before \in Seq(S)
        <2>1. <<>> \in Seq({Role}) /\ <<Role>> \in Seq({Role})
            OBVIOUS
        <2> QED
            BY <2>1
    <1>3. LET all == took[Len(before)]
          IN  Reads(all.view, all.counter, 1, k, <<>>) /\ ToldBy(all.view) = ToldBy(v)
        <2>1. PICK S : before \in Seq(S)
            BY <1>1
        <2>2. PICK U : PartChunks(l, parts) \in Seq(U)
            BY ChunksListed
        <2>3. before \in Seq(S \cup U) /\ PartChunks(l, parts) \in Seq(S \cup U)
            BY <2>1, <2>2, SeqMonotonic
        <2>4. /\ Len(before) \in Nat /\ Len(list) \in Nat /\ Len(before) <= Len(list)
              /\ \A i \in 1..Len(before) : list[i] = before[i]
            <3> HIDE DEF before
            <3> QED
                BY <2>3
        <2> HIDE DEF list
        <2>5. took[0] = [view |-> v, counter |-> c]
            BY <2>4, TakingsStep
        <2>6. CASE role = TRUE
            <3>1. Len(before) = 0
                BY <2>6
            <3> HIDE DEF before, took
            <3>2. LET all == took[0]
                  IN  Reads(all.view, all.counter, 1, k, <<>>) /\ ToldBy(all.view) = ToldBy(v)
                BY <2>5, <2>6
            <3> QED
                BY <3>1, <3>2
        <2>7. CASE role = FALSE
            <3>1. Len(before) = 1 /\ before[1] = Role
                BY <2>7
            <3> HIDE DEF before
            <3>2. 1 \in 1..Len(list) /\ list[1] = Role /\ 1 - 1 = 0
                BY <2>4, <3>1
            <3>3. took[1] = AfterChunk(took[1 - 1], list[1])
                BY <2>4, <3>2, TakenNext
            <3> HIDE DEF took
            <3>4. took[1] = AfterChunk([view |-> v, counter |-> c], Role)
                BY <2>5, <3>2, <3>3
            <3>5. took[1].view = Assemble(v, Role) /\ took[1].counter = CountChunk(c, Role)
                BY <3>4 DEF AfterChunk
            <3>6. Reads(v, c, 0, k, <<>>)
                BY <2>7
            <3>7. LET all == took[1]
                  IN  Reads(all.view, all.counter, 1, k, <<>>) /\ ToldBy(all.view) = ToldBy(v)
                BY <3>5, <3>6, RoleRead, RoleTold
            <3> QED
                BY <3>1, <3>7
        <2> QED
            BY <2>6, <2>7
    <1>4. PICK S : before \in Seq(S)
        BY <1>1
    <1> DEFINE all == Takings(v, c, before \o PartChunks(l, parts))
               n == Len(before \o PartChunks(l, parts))
    <1>5. /\ Reads(all[Len(before)].view, all[Len(before)].counter, 1, k, <<>>)
          /\ ToldBy(all[Len(before)].view) = ToldBy(v)
        BY <1>3
    <1> HIDE DEF before, took, list
    <1>6. ASSUME NEW q \in Nat, NEW told, Follows(told, q, parts), ToldBy(v) = told[q]
          PROVE  /\ Reads(all[n].view, all[n].counter, 1, k + CallsBefore(parts, Len(parts)), <<>>)
                 /\ ToldBy(all[n].view) = told[q + Len(parts)]
        BY <1>4, <1>5, <1>6, PartsRead
    <1>7. AllRead(all[n], v, k + CallsBefore(parts, Len(parts)), parts)
        BY <1>6 DEF AllRead
    <1> QED
        BY <1>7 DEF before

LEMMA GeminiSendsStep ==
    ASSUME GeminiInv, GeminiAgree, NEW candidate \in BOOLEAN, NEW kinds \in PartLists,
           NEW reason, NEW counts, GeminiSends(candidate, kinds, reason, counts)
    PROVE  GeminiInv' /\ GeminiAgree'
    <1>0. PICK parts : parts = Stamped(kinds)
        OBVIOUS
    <1> DEFINE payload == [candidate |-> candidate, parts |-> parts, finish |-> reason,
                           usage |-> counts]
               e == GeminiPayload(ad, payload)
    <1>1. /\ phase = "streaming" /\ provider = "gemini"
          /\ answer.pieces + Len(kinds) <= MaxPieces
          /\ ~candidate => kinds = <<>>
          /\ answer'.pieces = answer.pieces + Len(kinds)
          /\ ad' = e.ad /\ Deliver(e.chunks)
        BY <1>0 DEF GeminiSends, Streaming, Fresh
    <1>given. /\ answer'.parts = answer.parts \o parts
              /\ answer'.finish = (IF reason = None THEN answer.finish ELSE reason)
              /\ answer'.usage = (IF counts = NoUsage THEN answer.usage ELSE counts)
              /\ candidate => answer.finish = None
              /\ ~candidate => reason = None
        BY <1>0 DEF GeminiSends
    <1>2. PICK role, k, finish, usage :
             /\ role \in BOOLEAN /\ k \in Nat /\ answer.pieces \in 0..MaxPieces
             /\ ad = GeminiLocals(role, k - 1, finish, usage)
             /\ Reads(view, counter, IF role THEN 1 ELSE 0, k, <<>>)
        BY <1>1 DEF GeminiInv
    <1>3. PICK n : n \in Nat /\ n = answer.pieces
        BY <1>2, ExchangeAssumption
    <1>4. /\ Len(kinds) \in Nat /\ \E T : parts \in Seq(T)
          /\ Typed(parts) /\ Len(parts) = Len(kinds)
        BY <1>0, <1>1, <1>3, PartsStamped
    <1>5. answer'.pieces \in 0..MaxPieces
        BY <1>1, <1>3, <1>4, ExchangeAssumption
    <1>6. /\ payload.candidate = candidate /\ payload.parts = parts
          /\ payload.finish = reason /\ payload.usage = counts
        OBVIOUS
    <1>7. ad.role = role /\ ad.index = k - 1 /\ ad.finish = finish /\ ad.usage = usage
        BY <1>2 DEF GeminiLocals
    <1> HIDE DEF payload
    <1>agree. PICK U, old, told, q :
             /\ old = answer.parts /\ old \in Seq(U) /\ q = Len(old)
             /\ told = PartsTold(old \o parts) /\ ToldBy(view) = PartsTold(old)[q]
             /\ usage = answer.usage
             /\ answer.finish = None => finish = "stop"
             /\ answer.finish # None =>
                   finish = WithCalls(FinishReason(answer.finish), ad.index >= 0)
        BY <1>1, <1>7 DEF GeminiAgree
    <1>T. PICK T : parts \in Seq(T)
        BY <1>4
    <1>joined. /\ q \in Nat /\ old \o parts \in Seq(U \cup T)
               /\ Len(old \o parts) = q + Len(parts)
               /\ ToldBy(view) = told[q] /\ Follows(told, q, parts)
        <2>1. old \in Seq(U)
            BY <1>agree
        <2>2. /\ Len(old) \in Nat /\ old \o parts \in Seq(U \cup T)
              /\ Len(old \o parts) = Len(old) + Len(parts)
              /\ PartsTold(old \o parts)[Len(old)] = PartsTold(old)[Len(old)]
              /\ Follows(PartsTold(old \o parts), Len(old), parts)
            BY <1>T, <2>1, PartsJoined
        <2> QED
            BY <1>agree, <2>2
    <1>8. CASE ~candidate
        <2> DEFINE last == IF payload.usage = NoUsage THEN usage ELSE payload.usage
        <2>1. e.chunks = <<>> /\ e.ad = GeminiLocals(role, k - 1, finish, last)
            BY <1>2, <1>6, <1>8, PayloadEmpty
        <2> HIDE DEF e, last
        <2>2. Deliver(<<>>)
            BY <1>1, <2>1
        <2>3. view' = view /\ counter' = counter
            BY <2>2, NoneTaken DEF Deliver
        <2>4. GeminiInv'
            BY <1>1, <1>2, <1>5, <2>1, <2>3 DEF GeminiInv
        <2>5. ad'.usage = last /\ ad'.finish = finish /\ ad'.index = ad.index
            BY <1>1, <1>7, <2>1 DEF GeminiLocals
        <2>6. answer'.usage = last
            BY <1>6, <1>agree, <1>given DEF last
        <2>7. answer'.finish = answer.finish
            BY <1>8, <1>given
        <2>8. old \o parts = old
            <3>1. parts = <<>>
                BY <1>1, <1>4, <1>8, <1>T
            <3> QED
                BY <1>agree, <3>1
        <2>9. /\ answer'.parts \in Seq(U)
              /\ ToldBy(view') = PartsTold(answer'.parts)[Len(answer'.parts)]
            BY <1>agree, <1>given, <2>3, <2>8
        <2>10. GeminiAgree'
            BY <1>agree, <2>5, <2>6, <2>7, <2>9 DEF GeminiAgree
        <2> QED
            BY <2>4, <2>10
    <1>9. CASE candidate
        <2>0. PICK t \in BOOLEAN : t
            OBVIOUS
        <2> DEFINE chunks == (IF ad.role THEN <<>> ELSE <<Role>>) \o PartChunks(ad, parts)
                   m == CallsBefore(parts, Len(parts))
                   last == IF payload.usage = NoUsage THEN ad.usage ELSE payload.usage
                   why == ReasonAfter(ad, payload, ad.index + m)
        <2>1. e.chunks = chunks /\ e.ad = GeminiLocals(t, ad.index + m, why, last)
            <3>1. payload.candidate
                BY <1>6, <1>9
            <3>2. /\ e.chunks =
                       (IF ad.role THEN <<>> ELSE <<Role>>) \o PartChunks(ad, payload.parts)
                  /\ LET index == ad.index + CallsBefore(payload.parts, Len(payload.parts))
                     IN  e.ad = GeminiLocals(t, index, ReasonAfter(ad, payload, index), last)
                BY <2>0, <3>1, PayloadFull
            <3> HIDE DEF e
            <3> QED
                BY <1>6, <3>2
        <2>2. m \in Nat
            <3>1. Len(parts) \in Nat /\ Len(parts) \in 0..Len(parts)
                BY <1>T
            <3> QED
                BY <3>1, CallsCounted
        <2>3. LET all == Takings(view, counter, chunks)[Len(chunks)]
              IN  /\ Reads(all.view, all.counter, 1, k + m, <<>>)
                  /\ ToldBy(all.view) = told[q + Len(parts)]
            <3>1. /\ role \in BOOLEAN /\ k \in Nat /\ ad.role = role /\ ad.index = k - 1
                  /\ Reads(view, counter, IF role THEN 1 ELSE 0, k, <<>>)
                BY <1>2, <1>7
            <3>2. q \in Nat /\ Follows(told, q, parts) /\ ToldBy(view) = told[q] /\ Typed(parts)
                BY <1>4, <1>joined
            <3>3. AllRead(Takings(view, counter, chunks)[Len(chunks)], view, k + m, parts)
                BY <1>T, <3>1, <3>2, PayloadRead
            <3> HIDE DEF chunks, m
            <3> QED
                BY <3>2, <3>3 DEF AllRead
        <2> HIDE DEF e, chunks, m, last, why
        <2>4. Deliver(chunks)
            BY <1>1, <2>1
        <2>5. /\ Reads(view', counter', 1, k + m, <<>>)
              /\ ToldBy(view') = told[q + Len(parts)]
            BY <2>3, <2>4 DEF Deliver
        <2>6. k + m \in Nat /\ ad.index + m = (k + m) - 1
            BY <1>2, <1>7, <2>2
        <2>7. ad' = GeminiLocals(t, (k + m) - 1, why, last)
            BY <1>1, <2>1, <2>6
        <2>8. Reads(view', counter', IF t THEN 1 ELSE 0, k + m, <<>>)
            BY <2>0, <2>5
        <2>9. PICK j : j = k + m
            OBVIOUS
        <2>10. GeminiInv'
            BY <1>5, <2>6, <2>7, <2>8, <2>9 DEF GeminiInv
        <2>11. ad'.usage = last /\ ad'.finish = why /\ ad'.index = ad.index + m
            BY <2>6, <2>7 DEF GeminiLocals
        <2>12. answer'.usage = last
            BY <1>6, <1>7, <1>agree, <1>given DEF last
        <2>13. /\ answer'.finish = reason
               /\ reason = None => why = "stop"
               /\ reason # None => why = WithCalls(FinishReason(reason), ad.index + m >= 0)
            BY <1>6, <1>7, <1>9, <1>agree, <1>given DEF why, ReasonAfter
        <2>14. /\ answer'.parts \in Seq(U \cup T)
               /\ ToldBy(view') = PartsTold(answer'.parts)[Len(answer'.parts)]
            BY <1>agree, <1>given, <1>joined, <2>5
        <2>15. GeminiAgree'
            BY <2>11, <2>12, <2>13, <2>14 DEF GeminiAgree
        <2> QED
            BY <2>10, <2>15
    <1> QED
        BY <1>8, <1>9

-----------------------------------------------------------------------------
(***************************************************************************)
(* An upstream that speaks OpenAI's protocol: its chunks pass through, and *)
(* what it has said is what the client has read.                           *)
(***************************************************************************)
OpenAIInv ==
    phase = "streaming" /\ provider \in {"openai", "mimo"} =>
        \E roles, k, finish :
           /\ roles \in {0, 1} /\ k \in Nat /\ Len(finish) \in {0, 1}
           /\ answer.view = view /\ answer.pieces \in 0..MaxPieces
           /\ Reads(view, counter, roles, k, finish)

LEMMA ReadsFields ==
    ASSUME NEW v, NEW c, NEW roles, NEW n, NEW finish, Reads(v, c, roles, n, finish)
    PROVE  v.roles = roles /\ v.finish = finish /\ v.sound /\ Len(v.calls) = n
    <1>1. PICK S, text, thoughts, calls, images, audio, usage :
             /\ text \in Seq(PieceNumber) /\ thoughts \in Seq(PieceNumber)
             /\ calls \in Seq(S) /\ Len(calls) = n /\ audio \in Seq(S)
             /\ v = SoundView(text, thoughts, calls, images, audio, finish, usage, roles)
             /\ c = CountOf(text, thoughts)
        BY DEF Reads
    <1> QED
        BY <1>1 DEF SoundView

LEMMA ReadsTexts ==
    ASSUME NEW v, NEW c, NEW roles, NEW n, NEW finish, Reads(v, c, roles, n, finish)
    PROVE  \E text, thoughts :
              /\ text \in Seq(PieceNumber) /\ thoughts \in Seq(PieceNumber)
              /\ v.content = text /\ v.reasoning = thoughts
              /\ c = CountOf(text, thoughts)
    <1>1. PICK S, text, thoughts, calls, images, audio, usage :
             /\ text \in Seq(PieceNumber) /\ thoughts \in Seq(PieceNumber)
             /\ calls \in Seq(S) /\ Len(calls) = n /\ audio \in Seq(S)
             /\ v = SoundView(text, thoughts, calls, images, audio, finish, usage, roles)
             /\ c = CountOf(text, thoughts)
        BY DEF Reads
    <1>2. v.content = text /\ v.reasoning = thoughts
        BY <1>1 DEF SoundView
    <1> QED
        BY <1>1, <1>2

LEMMA OpenAIChunkStep ==
    ASSUME OpenAIInv, phase = "streaming", provider \in {"openai", "mimo"},
           NEW chunk \in {Role, Content(Piece), Finish("stop", NoUsage), Finish("length", NoUsage)},
           OpenAISends([kind |-> "chunk", chunk |-> chunk])
    PROVE  OpenAIInv' /\ (view'.finish = <<>> \/ \E why : view'.finish = <<why>>)
    <1> DEFINE line == [kind |-> "chunk", chunk |-> chunk]
    <1>1. line.kind = "chunk" /\ line.chunk = chunk
        OBVIOUS
    <1> HIDE DEF line
    <1>2. /\ Placed(answer.view, chunk) /\ (chunk.kind = "content" => Fresh(1))
          /\ answer' = [view |-> Assemble(answer.view, chunk),
                        pieces |-> answer.pieces + IF chunk.kind = "content" THEN 1 ELSE 0]
          /\ Deliver(<<chunk>>)
        BY <1>1 DEF OpenAISends, PassThrough, line
    <1>3. PICK roles, k, finish :
             /\ roles \in {0, 1} /\ k \in Nat /\ Len(finish) \in {0, 1}
             /\ answer.view = view /\ answer.pieces \in 0..MaxPieces
             /\ Reads(view, counter, roles, k, finish)
        BY DEF OpenAIInv
    <1>4. view' = Assemble(view, chunk) /\ counter' = CountChunk(counter, chunk)
        BY <1>2, OneTaken DEF Deliver
    <1>5. answer'.view = view'
        BY <1>2, <1>3, <1>4
    <1>6. view.roles = roles /\ view.finish = finish
        BY <1>3, ReadsFields
    <1>7. finish = <<>> /\ Reads(view, counter, roles, k, <<>>) /\ Placed(view, chunk)
        BY <1>2, <1>3, <1>6 DEF Placed
    <1>8. CASE chunk = Role
        <2>1. roles = 0 /\ chunk.kind = "role"
            BY <1>6, <1>7, <1>8 DEF Placed, Role
        <2>2. Reads(view', counter', 1, k, <<>>)
            BY <1>4, <1>7, <1>8, <2>1, RoleRead
        <2>3. answer'.pieces \in 0..MaxPieces
            BY <1>2, <1>3, <2>1, ExchangeAssumption
        <2>4. Len(<<>>) = 0
            OBVIOUS
        <2> QED
            BY <1>3, <1>5, <2>2, <2>3, <2>4, ReadsFields DEF OpenAIInv
    <1>9. CASE chunk = Content(Piece)
        <2>1. chunk.kind = "content" /\ roles = 1
            BY <1>3, <1>6, <1>7, <1>9 DEF Placed, Content
        <2>2. Piece \in PieceNumber /\ answer'.pieces \in 0..MaxPieces
            BY <1>2, <1>3, <2>1, ExchangeAssumption DEF Piece, Fresh, PieceNumber
        <2>3. Reads(view', counter', 1, k, <<>>)
            BY <1>4, <1>7, <1>9, <2>1, <2>2, ContentRead
        <2>4. Len(<<>>) = 0
            OBVIOUS
        <2> QED
            BY <1>3, <1>5, <2>2, <2>3, <2>4, ReadsFields DEF OpenAIInv
    <1>10. CASE chunk \in {Finish("stop", NoUsage), Finish("length", NoUsage)}
        <2>1. PICK why : chunk = Finish(why, NoUsage)
            BY <1>10
        <2>2. chunk.kind = "finish"
            BY <2>1 DEF Finish
        <2>3. Reads(view', counter', roles, k, <<why>>)
            BY <1>4, <1>7, <2>1, FinishRead
        <2>4. answer'.pieces \in 0..MaxPieces
            BY <1>2, <1>3, <2>2, ExchangeAssumption
        <2>5. Len(<<why>>) = 1
            OBVIOUS
        <2> QED
            BY <1>3, <1>5, <2>3, <2>4, <2>5, ReadsFields DEF OpenAIInv
    <1> QED
        BY <1>8, <1>9, <1>10

-----------------------------------------------------------------------------
(***************************************************************************)
(* Every exchange.  Nothing is read before a candidate has accepted; while *)
(* it streams, one of the three invariants above holds; once the stream    *)
(* has ended or failed, what has been read stays.  All along, what has     *)
(* been read agrees with the answer so far (AgreeInv).                     *)
(***************************************************************************)
Early == {"compose", "asked", "sent", "media", "refused", "answered"}

PhasesInv ==
    /\ phase \in Early \cup {"streaming", "eof", "ended", "failed"}
    /\ provider \in Providers \cup {None}
    /\ phase \notin Early \/ phase = "sent" => provider \in Providers
    /\ phase = "eof" => provider = "anthropic"

EarlyInv == phase \in Early => view = Unread /\ counter = NoTokens

\* The end of an adapter's stream bears a reason, an error none.
DoneInv ==
    phase \in {"ended", "failed"} =>
        \E roles, k, finish :
           /\ roles \in {0, 1} /\ Len(finish) \in {0, 1} /\ answer.pieces \in 0..MaxPieces
           /\ Reads(view, counter, roles, k, finish)
           /\ phase = "ended" /\ provider \in {"anthropic", "gemini"} => finish # <<>>
           /\ phase = "failed" => finish = <<>>

StreamInv == PhasesInv /\ EarlyInv /\ AnthropicInv /\ GeminiInv /\ OpenAIInv /\ DoneInv

\* The messages are those the client has written; they are forgotten together.
MessagesInv ==
    /\ \E S : msgs \in Seq(S)
    /\ Len(msgs) \in 0..MaxMessages /\ Len(asked) \in {0, Len(msgs)}
    /\ phase = "compose" => asked = <<>>

LEMMA Beginning == Init => StreamInv /\ MessagesInv
    <1> SUFFICES ASSUME Init PROVE StreamInv /\ MessagesInv
        OBVIOUS
    <1>1. phase = "compose" /\ provider = None /\ view = Unread /\ counter = NoTokens
        BY DEF Init
    <1>2. StreamInv
        BY <1>1 DEF StreamInv, PhasesInv, EarlyInv, AnthropicInv, GeminiInv, OpenAIInv, DoneInv,
                    Early
    <1>3. msgs = <<>> /\ asked = <<>>
        BY DEF Init
    <1>4. <<>> \in Seq({}) /\ Len(<<>>) = 0
        OBVIOUS
    <1>5. MessagesInv
        BY <1>3, <1>4, ExchangeAssumption DEF MessagesInv
    <1> QED
        BY <1>2, <1>5

\* While nothing has been answered, nothing is read.
LEMMA QuietStep ==
    ASSUME StreamInv, phase \in Early, phase' \in Early, view' = view, counter' = counter,
           provider' \in Providers \cup {None}, phase' = "sent" => provider' \in Providers
    PROVE  StreamInv'
    BY DEF StreamInv, PhasesInv, EarlyInv, AnthropicInv, GeminiInv, OpenAIInv, DoneInv, Early

LEMMA ComposeStep ==
    ASSUME StreamInv, MessagesInv, Compose
    PROVE  StreamInv' /\ MessagesInv'
    <1>1. CASE \E m : Write(m)
        <2>1. PICK m : Write(m)
            BY <1>1
        <2>2. /\ phase = "compose" /\ phase' = phase /\ view' = view /\ counter' = counter
              /\ provider' = provider
              /\ msgs' = Append(msgs, m) /\ asked' = asked /\ Len(msgs) < MaxMessages
            BY <2>1 DEF Write, stream
        <2>3. provider \in Providers \cup {None}
            BY DEF StreamInv, PhasesInv
        <2>4. StreamInv'
            BY <2>2, <2>3, QuietStep DEF Early
        <2>5. asked' = <<>> /\ Len(<<>>) = 0 /\ Len(msgs) \in 0..MaxMessages
            BY <2>2 DEF MessagesInv
        <2>6. PICK S : msgs \in Seq(S)
            BY DEF MessagesInv
        <2>7. Append(msgs, m) \in Seq(S \cup {m}) /\ Len(Append(msgs, m)) = Len(msgs) + 1
            <3>1. msgs \in Seq(S \cup {m})
                BY <2>6, SeqMonotonic
            <3> QED
                BY <3>1
        <2>8. MessagesInv'
            BY <2>2, <2>5, <2>7, ExchangeAssumption DEF MessagesInv
        <2> QED
            BY <2>4, <2>8
    <1>2. CASE \E o \in Options : Ask(o)
        <2>1. PICK o : Ask(o)
            BY <1>2
        <2>2. /\ phase = "compose" /\ phase' = "asked" /\ view' = view /\ counter' = counter
              /\ provider' = provider /\ msgs' = msgs /\ asked' = msgs
            BY <2>1 DEF Ask, stream
        <2>3. provider \in Providers \cup {None}
            BY DEF StreamInv, PhasesInv
        <2>4. StreamInv'
            BY <2>2, <2>3, QuietStep DEF Early
        <2>5. MessagesInv'
            BY <2>2 DEF MessagesInv
        <2> QED
            BY <2>4, <2>5
    <1>3. Compose => (\E m : Write(m)) \/ \E o \in Options : Ask(o)
        <2>1. ASSUME SystemSays PROVE \E m : Write(m)
            BY <2>1, Zenon DEF SystemSays
        <2>2. ASSUME NEW content, UserWrites(content) PROVE \E m : Write(m)
            BY <2>2, Zenon DEF UserWrites
        <2>3. ASSUME NEW text, NEW calls, AssistantSaid(text, calls) PROVE \E m : Write(m)
            BY <2>3, Zenon DEF AssistantSaid
        <2>4. ASSUME NEW c, NEW pictured, NEW named, ToolAnswers(c, pictured, named)
              PROVE  \E m : Write(m)
            BY <2>4, Zenon DEF ToolAnswers
        <2> QED
            BY <2>1, <2>2, <2>3, <2>4 DEF Compose
    <1> QED
        BY <1>1, <1>2, <1>3

LEMMA TryStep ==
    ASSUME StreamInv, MessagesInv, NEW p \in Providers, Try(p)
    PROVE  StreamInv' /\ MessagesInv'
    <1>1. /\ phase \in {"asked", "sent"} /\ phase' = "sent" /\ provider' = p
          /\ view' = view /\ counter' = counter /\ asked' = asked
          /\ msgs' = IF p = "mimo" THEN WithFormats(msgs) ELSE msgs
        BY DEF Try, stream
    <1>2. StreamInv'
        BY <1>1, QuietStep DEF Early
    <1>3. PICK S : msgs \in Seq(S)
        BY DEF MessagesInv
    <1>4. \E T : WithFormats(msgs) \in Seq(T) /\ Len(WithFormats(msgs)) = Len(msgs)
        <2> DEFINE new == WithFormats(msgs)
                   T == {new[i] : i \in 1..Len(msgs)}
        <2>1. Len(msgs) \in Nat /\ DOMAIN msgs = 1..Len(msgs)
            BY <1>3
        <2>2. DOMAIN new = 1..Len(msgs) /\ new \in [1..Len(msgs) -> T]
            BY <2>1 DEF WithFormats
        <2> HIDE DEF new
        <2>3. new \in Seq(T)
            BY <2>1, <2>2
        <2> HIDE DEF T
        <2>4. Len(new) = Len(msgs)
            BY <2>1, <2>2, <2>3
        <2> QED
            BY <2>3, <2>4 DEF new
    <1>5. MessagesInv'
        BY <1>1, <1>3, <1>4 DEF MessagesInv
    <1> QED
        BY <1>2, <1>5

LEMMA AcceptStep ==
    ASSUME StreamInv, Accept
    PROVE  StreamInv' /\ MessagesInv'
    <1>1. /\ phase = "sent" /\ phase' = "streaming" /\ provider' = provider
          /\ provider \in Providers
          /\ msgs' = <<>> /\ asked' = <<>>
          /\ answer' = NoAnswer(provider) /\ ad' = Locals(provider)
          /\ view' = Unread /\ counter' = NoTokens
        BY DEF Accept, StreamInv, PhasesInv, EarlyInv, Early
    <1>2. MessagesInv'
        <2>1. <<>> \in Seq({}) /\ Len(<<>>) = 0
            OBVIOUS
        <2> QED
            BY <1>1, <2>1, ExchangeAssumption DEF MessagesInv
    <1>3. Reads(view', counter', 0, 0, <<>>)
        BY <1>1, ReadNothing
    <1>4. CASE provider = "anthropic"
        <2>0. PICK f \in BOOLEAN : ~f
            OBVIOUS
        <2> DEFINE started == [b \in 0..MaxBlocks - 1 |-> -1]
        <2>1. /\ ad'.role = f /\ ad'.index = 0 - 1 /\ ad'.started = started
            <3>1. f = FALSE
                BY <2>0
            <3>2. ad' = AnthropicStart
                BY <1>1, <1>4 DEF Locals
            <3>3. /\ AnthropicStart.role = FALSE /\ AnthropicStart.index = 0 - 1
                  /\ AnthropicStart.started = started
                BY DEF AnthropicStart
            <3> QED
                BY <3>1, <3>2, <3>3
        <2>2. answer' = AnthropicAnswer(f, <<>>, None, 0, 0, 0, 0)
            BY <1>1, <1>4, <2>0 DEF NoAnswer, AnthropicAnswer
        <2>3. AnthropicSound(f, <<>>, 0, 0, started)
            <3>1. <<>> \in Seq(Block) /\ Len(<<>>) = 0
                OBVIOUS
            <3>2. started \in [0..MaxBlocks - 1 -> Int]
                OBVIOUS
            <3> HIDE DEF started
            <3> QED
                BY <3>1, <3>2, ExchangeAssumption DEF AnthropicSound
        <2> HIDE DEF started
        <2>4. AnthropicAnswered(f, <<>>, 0)'
            BY <2>2 DEF AnthropicAnswered
        <2>5. AnthropicRead(f, 0, started)'
            BY <1>3, <2>0, <2>1 DEF AnthropicRead
        <2>6. AnthropicInv'
            BY <2>3, <2>4, <2>5 DEF AnthropicInv
        <2> QED
            BY <1>1, <1>2, <1>4, <2>6
               DEF StreamInv, PhasesInv, EarlyInv, GeminiInv, OpenAIInv, DoneInv, Early
    <1>5. CASE provider = "gemini"
        <2>0. PICK f \in BOOLEAN : ~f
            OBVIOUS
        <2>1. /\ ad' = GeminiLocals(f, 0 - 1, "stop", NoUsage)
              /\ answer'.pieces = 0
            <3>1. f = FALSE
                BY <2>0
            <3>2. ad' = GeminiStart
                BY <1>1, <1>5 DEF Locals
            <3>3. GeminiStart = [role |-> FALSE, index |-> 0 - 1, finish |-> "stop",
                                 usage |-> NoUsage]
                BY DEF GeminiStart
            <3>4. answer'.pieces = 0
                BY <1>1, <1>5 DEF NoAnswer
            <3> QED
                BY <3>1, <3>2, <3>3, <3>4 DEF GeminiLocals
        <2>2. Reads(view', counter', IF f THEN 1 ELSE 0, 0, <<>>)
            BY <1>3, <2>0
        <2>3. 0 \in Nat /\ 0 \in 0..MaxPieces
            BY ExchangeAssumption
        <2>4. GeminiInv'
            BY <2>1, <2>2, <2>3 DEF GeminiInv
        <2> QED
            BY <1>1, <1>2, <1>5, <2>4
               DEF StreamInv, PhasesInv, EarlyInv, AnthropicInv, OpenAIInv, DoneInv, Early
    <1>6. CASE provider \in {"openai", "mimo"}
        <2>1. answer'.view = view' /\ answer'.pieces = 0
            BY <1>1, <1>6 DEF NoAnswer
        <2>2. 0 \in Nat /\ 0 \in 0..MaxPieces /\ Len(<<>>) = 0
            BY ExchangeAssumption
        <2>3. OpenAIInv'
            BY <1>3, <2>1, <2>2 DEF OpenAIInv
        <2> QED
            BY <1>1, <1>2, <1>6, <2>3
               DEF StreamInv, PhasesInv, EarlyInv, AnthropicInv, GeminiInv, DoneInv, Early
    <1> QED
        BY <1>1, <1>4, <1>5, <1>6 DEF Providers

\* The request is no longer touched.
LEMMA MessagesStay ==
    ASSUME MessagesInv, UNCHANGED request, phase' # "compose"
    PROVE  MessagesInv'
    BY DEF MessagesInv, request

LEMMA MediaSteps ==
    ASSUME StreamInv, MessagesInv,
           \/ \E p \in Providers, q \in MediaRequests : MediaAsk(p, q)
           \/ \E a \in MediaAnswers : MediaAnswered(a)
    PROVE  StreamInv' /\ MessagesInv'
    <1>1. /\ phase \in Early /\ phase' \in {"refused", "media", "answered"}
          /\ provider' = provider /\ view' = view /\ counter' = counter /\ UNCHANGED request
        BY DEF MediaAsk, MediaAnswered, stream, Early
    <1>2. StreamInv'
        BY <1>1, QuietStep DEF Early, StreamInv, PhasesInv
    <1> QED
        BY <1>1, <1>2, MessagesStay

\* Of a stream that ends.
LEMMA Ended ==
    ASSUME NEW k, NEW roles \in {0, 1}, NEW reason, phase' = "ended", provider' \in Providers,
           answer'.pieces \in 0..MaxPieces, Reads(view', counter', roles, k, <<reason>>)
    PROVE  StreamInv'
    <1>1. Len(<<reason>>) = 1 /\ <<reason>> # <<>>
        OBVIOUS
    <1>2. DoneInv'
        BY <1>1 DEF DoneInv
    <1> QED
        BY <1>2 DEF StreamInv, PhasesInv, EarlyInv, AnthropicInv, GeminiInv, OpenAIInv, Early

\* What has been read agrees with the answer, as far as both have come.
OpenAIAgree ==
    phase = "streaming" /\ provider \in {"openai", "mimo"} =>
        view.finish = <<>> \/ \E why : view.finish = <<why>>

AgreeInv == AnthropicAgree /\ GeminiAgree /\ OpenAIAgree /\ StreamAgrees

LEMMA NothingToAgree ==
    ASSUME phase' \notin {"streaming", "eof", "ended"}
    PROVE  AgreeInv'
    BY DEF AgreeInv, AnthropicAgree, GeminiAgree, OpenAIAgree, StreamAgrees

LEMMA AcceptAgrees ==
    ASSUME StreamInv, Accept
    PROVE  AgreeInv'
    <1>1. /\ phase' = "streaming" /\ provider' = provider /\ provider \in Providers
          /\ answer' = NoAnswer(provider) /\ ad' = Locals(provider) /\ view' = Unread
        BY DEF Accept, StreamInv, PhasesInv, EarlyInv, Early
    <1>2. ToldBy(Unread) = NothingTold
        BY DEF ToldBy, Told, Unread, NothingTold, NoAudio, LastOnly
    <1>3. Len(<<>>) = 0 /\ Len(<<>>) \in Nat
        OBVIOUS
    <1>4. ASSUME provider = "anthropic" PROVE AnthropicAgree'
        <2>0. PICK f \in BOOLEAN : ~f
            OBVIOUS
        <2>1. answer' = AnthropicAnswer(f, <<>>, None, 0, 0, 0, 0)
            BY <1>1, <1>4, <2>0 DEF NoAnswer, AnthropicAnswer
        <2>2. PICK l, v : l = AnthropicStart /\ v = Unread
            OBVIOUS
        <2>3. CountsTold(l, None, 0, 0, 0)
            BY <2>2 DEF CountsTold, AnthropicStart
        <2>4. BlocksRead(v, <<>>, l.started)
            <3>1. BlocksTold(<<>>)[0] = NothingTold
                BY <1>3, BlocksStep
            <3>2. 1..0 = {}
                OBVIOUS
            <3> QED
                BY <1>2, <1>3, <2>2, <3>1, <3>2 DEF BlocksRead
        <2>5. ad' = l /\ view' = v
            BY <1>1, <1>4, <2>2 DEF Locals
        <2> QED
            BY <2>1, <2>3, <2>4, <2>5, AgreeNext
    <1>5. ASSUME provider = "gemini" PROVE GeminiAgree'
        <2>1. ad'.usage = NoUsage /\ ad'.finish = "stop"
            BY <1>1, <1>5 DEF Locals, GeminiStart
        <2>2. answer'.parts = <<>> /\ answer'.finish = None /\ answer'.usage = NoUsage
            BY <1>1, <1>5 DEF NoAnswer
        <2>3. PartsTold(<<>>)[Len(<<>>)] = NothingTold
            BY <1>3, PartsStep
        <2>4. <<>> \in Seq({})
            OBVIOUS
        <2> QED
            BY <1>1, <1>2, <2>1, <2>2, <2>3, <2>4 DEF GeminiAgree
    <1>6. OpenAIAgree'
        BY <1>1 DEF OpenAIAgree, Unread
    <1>7. AnthropicAgree' /\ GeminiAgree'
        BY <1>1, <1>4, <1>5 DEF AnthropicAgree, GeminiAgree
    <1>8. StreamAgrees'
        BY <1>1 DEF StreamAgrees
    <1> QED
        BY <1>6, <1>7, <1>8 DEF AgreeInv

\* At the end of an adapter's stream, what was told is the whole answer.
LEMMA AgreesAtEnd ==
    ASSUME NEW v, NEW reason, NEW counts, phase' = "ended", view' = v,
           v.finish = <<reason>>, v.usage = counts,
           provider' \in {"anthropic", "gemini"},
           Complete' =>
              Whole' = Response([ToldBy(v) EXCEPT !.calls = CallsAsRead'], reason, counts)
    PROVE  AgreeInv'
    <1>0. PICK calls : calls = CallsAsRead'
        OBVIOUS
    <1>1. PICK t : t = [ToldBy(v) EXCEPT !.calls = calls]
        OBVIOUS
    <1>2. /\ t.content = v.content /\ t.reasoning = v.reasoning /\ t.calls = calls
          /\ t.images = v.images /\ t.audio = LastOnly(v.audio)
        <2>1. t = Told(v.content, v.reasoning, calls, v.images, LastOnly(v.audio))
            BY <1>1, ToldFields DEF ToldBy
        <2> QED
            BY <2>1, ToldFields
    <1>5. AudioKept' = LastOnly(v.audio)
        BY DEF AudioKept
    <1>3. LET whole == Response(t, reason, counts)
          IN  /\ whole.content = t.content /\ whole.reasoning = t.reasoning
              /\ whole.calls = t.calls /\ whole.images = t.images /\ whole.audio = t.audio
              /\ whole.finish = reason /\ whole.usage = counts
        BY DEF Response
    <1>4. StreamAgrees'
        BY <1>0, <1>1, <1>2, <1>3, <1>5 DEF StreamAgrees
    <1> QED
        BY <1>4 DEF AgreeInv, AnthropicAgree, GeminiAgree, OpenAIAgree

LEMMA AnthropicEndAgrees ==
    ASSUME StreamInv, AgreeInv, AnthropicEnds
    PROVE  AgreeInv'
    <1>1. /\ phase \in {"streaming", "eof"} /\ provider = "anthropic" /\ phase' = "ended"
          /\ provider' = provider /\ answer' = answer /\ Deliver(<<AnthropicFinish(ad)>>)
        BY DEF AnthropicEnds
    <1>2. AnthropicInv /\ AnthropicAgree
        BY DEF StreamInv, AgreeInv
    <1>3. PICK begun, blocks, n, k, started, stop, input, cached, output :
             /\ AnthropicSound(begun, blocks, n, k, started)
             /\ answer = AnthropicAnswer(begun, blocks, stop, input, cached, output, n)
             /\ AnthropicRead(begun, k, started)
        BY <1>1, <1>2, AnthropicFound
    <1>4. CountsTold(ad, stop, input, cached, output) /\ BlocksRead(view, blocks, ad.started)
        BY <1>1, <1>2, <1>3, AgreeFound
    <1> DEFINE reason == StopReason(stop)
               counts == [prompt |-> input + cached, completion |-> output]
    <1>5. AnthropicFinish(ad) = Finish(reason, counts)
        BY <1>4 DEF AnthropicFinish, CountsTold
    <1> DEFINE t == BlocksTold(blocks)[Len(blocks)]
    <1>6. Whole' = Response([t EXCEPT !.calls = WrittenOut(t.calls)], reason, counts)
        <2>1. Whole' = AnthropicResponse(answer)
            BY <1>1 DEF Whole
        <2>2. /\ answer.blocks = blocks /\ answer.stop = stop /\ answer.usage.input = input
              /\ answer.usage.cached = cached /\ answer.usage.output = output
            BY <1>3, AnswerFields
        <2> QED
            BY <2>1, <2>2 DEF AnthropicResponse
    <1> HIDE DEF reason, counts
    <1>7. PICK v : v = Assemble(view, Finish(reason, counts))
        OBVIOUS
    <1>8. view' = v
        BY <1>1, <1>5, <1>7, OneTaken DEF Deliver
    <1>9. PICK roles : Reads(view, counter, roles, k, <<>>)
        BY <1>3 DEF AnthropicRead
    <1>10. ToldBy(v) = ToldBy(view) /\ v.finish = <<reason>> /\ v.usage = counts
        BY <1>7, <1>9, FinishTold
    <1>12. ToldBy(v) = t
        BY <1>4, <1>10 DEF BlocksRead
    <1>13. CallsAsRead' = WrittenOut(t.calls)
        <2>1. ToldBy(v).calls = v.calls
            BY ToldFields DEF ToldBy
        <2> QED
            BY <1>1, <1>8, <1>12, <2>1 DEF CallsAsRead
    <1>11. Whole' = Response([ToldBy(v) EXCEPT !.calls = CallsAsRead'], reason, counts)
        BY <1>6, <1>12, <1>13
    <1> HIDE DEF t
    <1> QED
        BY <1>1, <1>8, <1>10, <1>11, AgreesAtEnd

LEMMA CallsNumbered ==
    ASSUME NEW v, NEW c, NEW roles, NEW n, NEW finish, Reads(v, c, roles, n, finish)
    PROVE  (ToldBy(v).calls # <<>>) <=> n > 0
    <1>1. PICK S, text, thoughts, calls, images, audio, usage :
             /\ text \in Seq(PieceNumber) /\ thoughts \in Seq(PieceNumber)
             /\ calls \in Seq(S) /\ Len(calls) = n /\ audio \in Seq(S)
             /\ v = SoundView(text, thoughts, calls, images, audio, finish, usage, roles)
             /\ c = CountOf(text, thoughts)
        BY DEF Reads
    <1>2. ToldBy(v).calls = calls
        BY <1>1, ToldOfSound, ToldFields
    <1>3. (calls # <<>>) <=> n > 0
        BY <1>1
    <1> QED
        BY <1>2, <1>3

LEMMA GeminiEndAgrees ==
    ASSUME StreamInv, AgreeInv, GeminiEnds
    PROVE  AgreeInv'
    <1>1. /\ phase = "streaming" /\ provider = "gemini" /\ phase' = "ended"
          /\ provider' = provider /\ answer' = answer /\ Deliver(<<GeminiFinish(ad)>>)
        BY DEF GeminiEnds, Streaming
    <1>2. PICK role, k, finish, usage :
             /\ k \in Nat /\ ad = GeminiLocals(role, k - 1, finish, usage)
             /\ Reads(view, counter, IF role THEN 1 ELSE 0, k, <<>>)
        BY <1>1 DEF StreamInv, GeminiInv
    <1>3. ad.index = k - 1 /\ ad.finish = finish /\ ad.usage = usage
        BY <1>2 DEF GeminiLocals
    <1>4. PICK t : t = PartsTold(answer.parts)[Len(answer.parts)]
        OBVIOUS
    <1>5. /\ ToldBy(view) = t /\ usage = answer.usage
          /\ answer.finish # None =>
                finish = WithCalls(FinishReason(answer.finish), ad.index >= 0)
        BY <1>1, <1>3, <1>4 DEF AgreeInv, GeminiAgree
    <1>6. (t.calls # <<>>) <=> k > 0
        BY <1>2, <1>5, CallsNumbered
    <1>7. answer.finish # None =>
             finish = WithCalls(FinishReason(answer.finish), t.calls # <<>>)
        BY <1>2, <1>3, <1>5, <1>6 DEF WithCalls
    <1>8. Whole' = Response(t, WithCalls(FinishReason(answer.finish), t.calls # <<>>), usage)
        BY <1>1, <1>4, <1>5 DEF Whole, GeminiResponse
    <1>9. Complete' => answer.finish # None
        BY <1>1 DEF Complete
    <1>10. PICK v : v = Assemble(view, Finish(finish, usage))
        OBVIOUS
    <1>11. view' = v
        <2>1. GeminiFinish(ad) = Finish(finish, usage)
            BY <1>3 DEF GeminiFinish
        <2> QED
            BY <1>1, <1>10, <2>1, OneTaken DEF Deliver
    <1>12. ToldBy(v) = t /\ v.finish = <<finish>> /\ v.usage = usage
        BY <1>2, <1>5, <1>10, FinishTold
    <1>14. [ToldBy(v) EXCEPT !.calls = CallsAsRead'] = ToldBy(v)
        <2>1. CallsAsRead' = v.calls
            BY <1>1, <1>11 DEF CallsAsRead
        <2> QED
            BY <2>1, ToldFields DEF ToldBy
    <1>13. Complete' =>
              Whole' = Response([ToldBy(v) EXCEPT !.calls = CallsAsRead'], finish, usage)
        BY <1>7, <1>8, <1>9, <1>12, <1>14
    <1> QED
        BY <1>1, <1>11, <1>12, <1>13, AgreesAtEnd

LEMMA FinishReplaced ==
    ASSUME NEW text, NEW thoughts, NEW calls, NEW images, NEW audio, NEW finish, NEW usage,
           NEW roles, NEW why
    PROVE  [SoundView(text, thoughts, calls, images, audio, finish, usage, roles)
            EXCEPT !.finish = why] =
           SoundView(text, thoughts, calls, images, audio, why, usage, roles)
    <1>1. PICK sound : sound = TRUE
        OBVIOUS
    <1>2. \A done : SoundView(text, thoughts, calls, images, audio, done, usage, roles) =
             [content |-> text, reasoning |-> thoughts, calls |-> calls, images |-> images,
              audio |-> audio, finish |-> done, usage |-> usage, roles |-> roles,
              sound |-> sound]
        BY <1>1 DEF SoundView
    <1> HIDE <1>1
    <1>3. [[content |-> text, reasoning |-> thoughts, calls |-> calls, images |-> images,
            audio |-> audio, finish |-> finish, usage |-> usage, roles |-> roles,
            sound |-> sound] EXCEPT !.finish = why] =
             [content |-> text, reasoning |-> thoughts, calls |-> calls, images |-> images,
              audio |-> audio, finish |-> why, usage |-> usage, roles |-> roles,
              sound |-> sound]
        OBVIOUS
    <1> QED
        BY <1>2, <1>3

\* What an upstream has said in OpenAI's protocol is what the client has read.
LEMMA PassedOn ==
    ASSUME NEW v, NEW c, NEW roles, NEW n, NEW why, Reads(v, c, roles, n, <<why>>)
    PROVE  LET whole == [v EXCEPT !.finish = IF @ = <<>> THEN None ELSE @[1]]
           IN  /\ v.content = whole.content /\ v.reasoning = whole.reasoning
               /\ v.calls = whole.calls /\ v.images = whole.images /\ v.audio = whole.audio
               /\ v.finish = <<whole.finish>> /\ v.usage = whole.usage
    <1>1. PICK S, text, thoughts, calls, images, audio, usage :
             /\ text \in Seq(PieceNumber) /\ thoughts \in Seq(PieceNumber)
             /\ calls \in Seq(S) /\ Len(calls) = n /\ audio \in Seq(S)
             /\ v = SoundView(text, thoughts, calls, images, audio, <<why>>, usage, roles)
             /\ c = CountOf(text, thoughts)
        BY DEF Reads
    <1>2. <<why>> # <<>> /\ <<why>>[1] = why
        OBVIOUS
    <1>3. v.finish = <<why>>
        BY <1>1 DEF SoundView
    <1>4. [v EXCEPT !.finish = IF @ = <<>> THEN None ELSE @[1]] = [v EXCEPT !.finish = why]
        BY <1>2, <1>3
    <1>5. [v EXCEPT !.finish = why] =
             SoundView(text, thoughts, calls, images, audio, why, usage, roles)
        BY ONLY <1>1, FinishReplaced
    <1> QED
        BY <1>1, <1>4, <1>5 DEF SoundView

LEMMA DoneAgrees ==
    ASSUME OpenAIInv, OpenAIAgree, phase = "streaming", provider \in {"openai", "mimo"},
           provider' = provider, answer' = answer, view' = view, phase' = "ended"
    PROVE  AgreeInv'
    <1>1. PICK roles, k, finish :
             answer.view = view /\ Reads(view, counter, roles, k, finish)
        BY DEF OpenAIInv
    <1>2. view.finish = finish
        BY <1>1, ReadsFields
    <1>3. Complete' => view.finish # <<>>
        BY <1>1 DEF Complete
    <1>4. PICK v : v = view
        OBVIOUS
    <1>5. Whole' = [v EXCEPT !.finish = IF @ = <<>> THEN None ELSE @[1]]
        BY <1>1, <1>4 DEF Whole
    <1>6. ASSUME Complete'
          PROVE  LET whole == [v EXCEPT !.finish = IF @ = <<>> THEN None ELSE @[1]]
                 IN  /\ v.content = whole.content /\ v.reasoning = whole.reasoning
                     /\ v.calls = whole.calls /\ v.images = whole.images /\ v.audio = whole.audio
                     /\ v.finish = <<whole.finish>> /\ v.usage = whole.usage
        <2>1. PICK why : view.finish = <<why>>
            BY <1>3, <1>6 DEF OpenAIAgree
        <2>2. Reads(v, counter, roles, k, <<why>>)
            BY <1>1, <1>2, <1>4, <2>1
        <2> QED
            BY <2>2, PassedOn
    <1>8. CallsAsRead' = v.calls /\ AudioKept' = v.audio
        BY <1>4 DEF CallsAsRead, AudioKept
    <1>7. StreamAgrees'
        BY <1>4, <1>5, <1>6, <1>8 DEF StreamAgrees
    <1> QED
        BY <1>7 DEF AgreeInv, AnthropicAgree, GeminiAgree, OpenAIAgree

LEMMA AnthropicSteps ==
    ASSUME StreamInv, MessagesInv, AgreeInv, AnthropicStream
    PROVE  StreamInv' /\ MessagesInv' /\ AgreeInv'
    <1>1. AnthropicInv /\ AnthropicAgree
        BY DEF StreamInv, AgreeInv
    <1>2. CASE ~AnthropicEnds
        <2>1. /\ AnthropicInv' /\ AnthropicAgree'
              /\ \E data, after, ended : ended \in BOOLEAN /\ AnthropicSends(data, after, ended)
            <3>1. ASSUME NEW usage, usage.input \in Nat, usage.cached \in Nat, MessageStart(usage)
                  PROVE  /\ AnthropicInv' /\ AnthropicAgree'
                         /\ \E data, after : AnthropicSends(data, after, TRUE)
                BY <1>1, <3>1, MessageStartStep, Zenon DEF MessageStart
            <3>2. ASSUME NEW sort \in {"text", "thinking"}, BlockStart(sort, NoName)
                  PROVE  /\ AnthropicInv' /\ AnthropicAgree'
                         /\ \E data, after : AnthropicSends(data, after, TRUE)
                BY <1>1, <3>2, TextStartStep, Zenon DEF BlockStart
            <3>3. ASSUME NEW name \in ToolName, BlockStart("tool_use", name)
                  PROVE  /\ AnthropicInv' /\ AnthropicAgree'
                         /\ \E data, after : AnthropicSends(data, after, TRUE)
                BY <1>1, <3>3, ToolStartStep, Zenon DEF BlockStart
            <3>4. ASSUME NEW b \in 1..MaxBlocks, BlockDelta(b)
                  PROVE  /\ AnthropicInv' /\ AnthropicAgree'
                         /\ \E data, after : AnthropicSends(data, after, TRUE)
                BY <1>1, <3>4, BlockDeltaStep, Zenon DEF BlockDelta
            <3>5. ASSUME NEW why, NEW last \in Nat \cup {-1}, NEW ended \in BOOLEAN,
                         MessageDelta(why, last, ended)
                  PROVE  /\ AnthropicInv' /\ AnthropicAgree'
                         /\ \E data, after : AnthropicSends(data, after, ended)
                BY <1>1, <3>5, MessageDeltaStep, Zenon DEF MessageDelta
            <3>6. ASSUME NEW usage \in {[input |-> 0, cached |-> 0], [input |-> 2, cached |-> 1]}
                  PROVE  usage.input \in Nat /\ usage.cached \in Nat
                OBVIOUS
            <3>7. \A last \in {-1, 2} : last \in Nat \cup {-1}
                OBVIOUS
            <3> QED
                BY <1>2, <3>1, <3>2, <3>3, <3>4, <3>5, <3>6, <3>7, Zenon DEF AnthropicStream, NoName
        <2>2. PICK data, after, ended : ended \in BOOLEAN /\ AnthropicSends(data, after, ended)
            BY <2>1
        <2>3. /\ provider = "anthropic" /\ provider' = provider /\ UNCHANGED request
              /\ phase' \in {"streaming", "eof"}
            BY <2>2, SendsOne
        <2>4. StreamInv'
            BY <2>1, <2>3 DEF StreamInv, PhasesInv, EarlyInv, GeminiInv, OpenAIInv, DoneInv, Early,
                              Providers
        <2>5. AgreeInv'
            BY <2>1, <2>3 DEF AgreeInv, GeminiAgree, OpenAIAgree, StreamAgrees
        <2> QED
            BY <2>3, <2>4, <2>5, MessagesStay
    <1>3. CASE AnthropicEnds
        <2>1. /\ phase \in {"streaming", "eof"} /\ provider = "anthropic" /\ phase' = "ended"
              /\ provider' = provider /\ answer' = answer /\ UNCHANGED request
              /\ Deliver(<<AnthropicFinish(ad)>>)
            BY <1>3 DEF AnthropicEnds
        <2>2. PICK begun, blocks, n, k, started :
                 /\ AnthropicSound(begun, blocks, n, k, started)
                 /\ answer.pieces = n
                 /\ AnthropicRead(begun, k, started)
            BY <1>1, <2>1, AnthropicFound
        <2>3. PICK roles \in {0, 1} : Reads(view, counter, roles, k, <<>>)
            BY <2>2 DEF AnthropicRead
        <2>4. PICK reason, counts : AnthropicFinish(ad) = Finish(reason, counts)
            BY DEF AnthropicFinish
        <2>5. /\ view' = Assemble(view, Finish(reason, counts))
              /\ counter' = CountChunk(counter, Finish(reason, counts))
            BY <2>1, <2>4, OneTaken DEF Deliver
        <2>6. Reads(view', counter', roles, k, <<reason>>)
            BY <2>3, <2>5, FinishRead
        <2>7. answer'.pieces \in 0..MaxPieces
            BY <2>1, <2>2 DEF AnthropicSound
        <2> QED
            BY <1>3, <2>1, <2>6, <2>7, Ended, MessagesStay, AnthropicEndAgrees DEF Providers
    <1> QED
        BY <1>2, <1>3

LEMMA GeminiSteps ==
    ASSUME StreamInv, MessagesInv, AgreeInv, GeminiStream
    PROVE  StreamInv' /\ MessagesInv' /\ AgreeInv'
    <1>1. GeminiInv /\ GeminiAgree
        BY DEF StreamInv, AgreeInv
    <1>2. CASE ~GeminiEnds
        <2>1. /\ GeminiInv' /\ GeminiAgree'
              /\ \E candidate, kinds, reason, counts : GeminiSends(candidate, kinds, reason, counts)
            BY <1>1, <1>2, GeminiSendsStep DEF GeminiStream
        <2>2. /\ phase = "streaming" /\ phase' = phase /\ provider = "gemini"
              /\ provider' = provider /\ UNCHANGED request
            BY <2>1 DEF GeminiSends, Streaming
        <2>3. StreamInv'
            BY <2>1, <2>2 DEF StreamInv, PhasesInv, EarlyInv, AnthropicInv, OpenAIInv, DoneInv,
                              Early, Providers
        <2>4. AgreeInv'
            BY <2>1, <2>2 DEF AgreeInv, AnthropicAgree, OpenAIAgree, StreamAgrees
        <2> QED
            BY <2>2, <2>3, <2>4, MessagesStay
    <1>3. CASE GeminiEnds
        <2>1. /\ phase = "streaming" /\ provider = "gemini" /\ phase' = "ended"
              /\ provider' = provider /\ answer' = answer /\ UNCHANGED request
              /\ Deliver(<<GeminiFinish(ad)>>)
            BY <1>3 DEF GeminiEnds, Streaming
        <2>2. PICK role, k :
                 /\ answer.pieces \in 0..MaxPieces
                 /\ Reads(view, counter, IF role THEN 1 ELSE 0, k, <<>>)
            BY <1>1, <2>1 DEF GeminiInv
        <2>3. PICK roles \in {0, 1} : Reads(view, counter, roles, k, <<>>)
            BY <2>2
        <2>4. PICK reason, counts : GeminiFinish(ad) = Finish(reason, counts)
            BY DEF GeminiFinish
        <2>5. /\ view' = Assemble(view, Finish(reason, counts))
              /\ counter' = CountChunk(counter, Finish(reason, counts))
            BY <2>1, <2>4, OneTaken DEF Deliver
        <2>6. Reads(view', counter', roles, k, <<reason>>)
            BY <2>3, <2>5, FinishRead
        <2> QED
            BY <1>3, <2>1, <2>2, <2>6, Ended, MessagesStay, GeminiEndAgrees DEF Providers
    <1> QED
        BY <1>2, <1>3

LEMMA OpenAISteps ==
    ASSUME StreamInv, MessagesInv, AgreeInv, OpenAIStream
    PROVE  StreamInv' /\ MessagesInv' /\ AgreeInv'
    <1>1. OpenAIInv /\ phase = "streaming" /\ provider \in {"openai", "mimo"}
        BY DEF StreamInv, OpenAIStream
    <1>2. CASE \E chunk \in {Role, Content(Piece),
                                 Finish("stop", NoUsage), Finish("length", NoUsage)} :
                  OpenAISends([kind |-> "chunk", chunk |-> chunk])
        <2>1. PICK chunk \in {Role, Content(Piece),
                              Finish("stop", NoUsage), Finish("length", NoUsage)} :
                 OpenAISends([kind |-> "chunk", chunk |-> chunk])
            BY <1>2
        <2>2. OpenAIInv' /\ (view'.finish = <<>> \/ \E why : view'.finish = <<why>>)
            BY <1>1, <2>1, OpenAIChunkStep
        <2>3. phase' = phase /\ provider' = provider /\ UNCHANGED request
            BY <2>1 DEF OpenAISends
        <2>4. StreamInv'
            BY <1>1, <2>2, <2>3 DEF StreamInv, PhasesInv, EarlyInv, AnthropicInv, GeminiInv,
                                    DoneInv, Early, Providers
        <2>5. AgreeInv'
            BY <1>1, <2>2, <2>3 DEF AgreeInv, AnthropicAgree, GeminiAgree, OpenAIAgree, StreamAgrees
        <2> QED
            BY <1>1, <2>3, <2>4, <2>5, MessagesStay
    <1>3. CASE \E kind \in {"noise", "done"} : OpenAISends([kind |-> kind])
        <2>1. PICK kind \in {"noise", "done"} : OpenAISends([kind |-> kind])
            BY <1>3
        <2> DEFINE line == [kind |-> kind]
        <2>2. line.kind = kind
            OBVIOUS
        <2> HIDE DEF line
        <2>3. /\ answer' = answer /\ provider' = provider /\ UNCHANGED request
              /\ phase' = IF kind = "done" THEN "ended" ELSE phase
              /\ Deliver(<<>>)
            BY <2>1, <2>2 DEF OpenAISends, PassThrough, line
        <2>4. view' = view /\ counter' = counter
            BY <2>3, NoneTaken DEF Deliver
        <2>5. PICK roles, k, finish :
                 /\ roles \in {0, 1} /\ k \in Nat /\ Len(finish) \in {0, 1}
                 /\ answer.view = view /\ answer.pieces \in 0..MaxPieces
                 /\ Reads(view, counter, roles, k, finish)
            BY <1>1 DEF OpenAIInv
        <2>6. StreamInv'
            BY <1>1, <2>1, <2>3, <2>4, <2>5
               DEF StreamInv, PhasesInv, EarlyInv, AnthropicInv, GeminiInv, OpenAIInv, DoneInv,
                   Early, Providers
        <2>7. AgreeInv'
            <3>1. CASE kind = "done"
                BY <1>1, <2>3, <2>4, <3>1, DoneAgrees DEF AgreeInv
            <3>2. CASE kind = "noise"
                BY <1>1, <2>3, <2>4, <3>2
                   DEF AgreeInv, AnthropicAgree, GeminiAgree, OpenAIAgree, StreamAgrees
            <3> QED
                BY <2>1, <3>1, <3>2
        <2> QED
            BY <1>1, <2>3, <2>6, <2>7, MessagesStay
    <1> QED
        BY <1>2, <1>3 DEF OpenAIStream

LEMMA ErrorStep ==
    ASSUME StreamInv, MessagesInv, StreamError
    PROVE  StreamInv' /\ MessagesInv'
    <1>1. /\ phase = "streaming" /\ provider \in {"anthropic", "gemini"} /\ phase' = "failed"
          /\ provider' = provider /\ answer' = answer /\ view' = view /\ counter' = counter
          /\ UNCHANGED request
        BY DEF StreamError, stream
    <1>2. \E roles \in {0, 1} : \E k :
             answer.pieces \in 0..MaxPieces /\ Reads(view, counter, roles, k, <<>>)
        <2>1. CASE provider = "anthropic"
            <3>1. PICK begun, blocks, n, k, started :
                     /\ AnthropicSound(begun, blocks, n, k, started)
                     /\ answer.pieces = n
                     /\ AnthropicRead(begun, k, started)
                BY <1>1, <2>1, AnthropicFound DEF StreamInv
            <3> QED
                BY <3>1 DEF AnthropicSound, AnthropicRead
        <2>2. CASE provider = "gemini"
            BY <1>1, <2>2 DEF StreamInv, GeminiInv
        <2> QED
            BY <1>1, <2>1, <2>2
    <1>3. Len(<<>>) = 0
        OBVIOUS
    <1>4. DoneInv'
        BY <1>1, <1>2, <1>3 DEF DoneInv
    <1>5. StreamInv'
        BY <1>1, <1>4 DEF StreamInv, PhasesInv, EarlyInv, AnthropicInv, GeminiInv, OpenAIInv, Early,
                          Providers
    <1> QED
        BY <1>1, <1>5, MessagesStay

\* What holds of every exchange.
LEMMA StreamCorrect == Spec => [](StreamInv /\ MessagesInv /\ AgreeInv)
    <1> DEFINE Inv == StreamInv /\ MessagesInv /\ AgreeInv
    <1>1. Inv /\ Next => Inv'
        <2> SUFFICES ASSUME StreamInv, MessagesInv, AgreeInv, Next PROVE Inv'
            OBVIOUS
        <2>1. CASE Compose
            <3>1. phase' \in {"compose", "asked"}
                BY <2>1 DEF Compose, SystemSays, UserWrites, AssistantSaid, ToolAnswers, Write, Ask
            <3> QED
                BY <2>1, <3>1, ComposeStep, NothingToAgree
        <2>2. CASE \E p \in Providers : Try(p)
            <3>1. phase' = "sent"
                BY <2>2 DEF Try
            <3> QED
                BY <2>2, <3>1, TryStep, NothingToAgree
        <2>3. CASE Accept
            BY <2>3, AcceptStep, AcceptAgrees
        <2>4. CASE AnthropicStream
            BY <2>4, AnthropicSteps
        <2>5. CASE GeminiStream
            BY <2>5, GeminiSteps
        <2>6. CASE OpenAIStream
            BY <2>6, OpenAISteps
        <2>7. CASE StreamError
            <3>1. phase' = "failed"
                BY <2>7 DEF StreamError
            <3> QED
                BY <2>7, <3>1, ErrorStep, NothingToAgree
        <2>8. CASE \/ \E p \in Providers, q \in MediaRequests : MediaAsk(p, q)
                   \/ \E a \in MediaAnswers : MediaAnswered(a)
            <3>1. phase' \in {"refused", "media", "answered"}
                BY <2>8 DEF MediaAsk, MediaAnswered
            <3> QED
                BY <2>8, <3>1, MediaSteps, NothingToAgree
        <2> QED
            BY <2>1, <2>2, <2>3, <2>4, <2>5, <2>6, <2>7, <2>8 DEF Next
    <1>2. Inv /\ UNCHANGED vars => Inv'
        BY DEF StreamInv, PhasesInv, EarlyInv, AnthropicInv, AnthropicAnswered, AnthropicRead,
               GeminiInv, OpenAIInv, DoneInv, MessagesInv, AgreeInv, AnthropicAgree, GeminiAgree,
               OpenAIAgree, StreamAgrees, CallsAsRead, AudioKept, Complete, Whole, vars, request,
               stream
    <1>3. Init => Inv
        <2>1. Init => AgreeInv
            BY DEF Init, AgreeInv, AnthropicAgree, GeminiAgree, OpenAIAgree, StreamAgrees
        <2> QED
            BY <2>1, Beginning
    <1> QED
        BY <1>1, <1>2, <1>3, PTL DEF Spec

\* In every state the client has read sound chunks.
LEMMA SomethingRead ==
    ASSUME StreamInv
    PROVE  \E roles, k, finish :
              /\ roles \in {0, 1} /\ Len(finish) \in {0, 1}
              /\ Reads(view, counter, roles, k, finish)
              /\ phase \in {"streaming", "eof", "ended", "failed"} => answer.pieces \in 0..MaxPieces
              /\ phase = "ended" /\ provider \in {"anthropic", "gemini"} => finish # <<>>
              /\ phase = "failed" => finish = <<>>
    <1>0. Len(<<>>) = 0
        OBVIOUS
    <1>1. CASE phase \in Early
        BY <1>0, <1>1, ReadNothing DEF StreamInv, EarlyInv, Early
    <1>2. CASE phase \in {"streaming", "eof"} /\ provider = "anthropic"
        <2>1. PICK begun, blocks, n, k, started :
                 /\ AnthropicSound(begun, blocks, n, k, started)
                 /\ answer.pieces = n
                 /\ AnthropicRead(begun, k, started)
            BY <1>2, AnthropicFound DEF StreamInv
        <2> QED
            BY <1>0, <1>2, <2>1 DEF AnthropicSound, AnthropicRead
    <1>3. CASE phase = "streaming" /\ provider = "gemini"
        BY <1>0, <1>3 DEF StreamInv, GeminiInv
    <1>4. CASE phase = "streaming" /\ provider \in {"openai", "mimo"}
        BY <1>4 DEF StreamInv, OpenAIInv
    <1>5. CASE phase \in {"ended", "failed"}
        BY <1>5 DEF StreamInv, DoneInv
    <1> QED
        BY <1>1, <1>2, <1>3, <1>4, <1>5 DEF StreamInv, PhasesInv, Providers, Early

(***************************************************************************)
(* A client can follow the chunks of every stream: one role first, calls   *)
(* that begin with the next index and get only their own arguments after   *)
(* that, one finish at the end and none after an error.                    *)
(***************************************************************************)
THEOREM ChunksWellFormed == Spec => []WellFormed
    <1>1. StreamInv => WellFormed
        <2> SUFFICES ASSUME StreamInv PROVE WellFormed
            OBVIOUS
        <2>1. PICK roles, k, finish :
                 /\ Reads(view, counter, roles, k, finish)
                 /\ phase = "ended" /\ provider \in {"anthropic", "gemini"} => finish # <<>>
                 /\ phase = "failed" => finish = <<>>
            BY SomethingRead
        <2>2. view.finish = finish /\ view.sound
            BY <2>1, ReadsFields
        <2> QED
            BY <2>1, <2>2 DEF WellFormed
    <1> QED
        BY <1>1, StreamCorrect, PTL

(***************************************************************************)
(* The chunks of a complete stream add up to the answer that the same      *)
(* upstream would have given at once (iter_stream and normalize_response   *)
(* of each adapter): every piece of text and of reasoning in its order,    *)
(* every call with its id and its own arguments though calls come side by  *)
(* side, the images, the reason for the end, and the usage counted once.   *)
(* Arguments that Anthropic's stream leaves empty are "{}" in the whole    *)
(* answer, and of streamed audio the whole answer keeps the last part.     *)
(***************************************************************************)
THEOREM StreamedAsWhole == Spec => []StreamAgrees
    <1>1. AgreeInv => StreamAgrees
        BY DEF AgreeInv
    <1> QED
        BY <1>1, StreamCorrect, PTL

(***************************************************************************)
(* The tokens counted chunk by chunk are those of the whole text: nothing  *)
(* is rounded before the end.                                              *)
(***************************************************************************)
THEOREM CountedWhole == Spec => []CountsWhole
    <1>1. StreamInv => CountsWhole
        <2> SUFFICES ASSUME StreamInv PROVE CountsWhole
            OBVIOUS
        <2>1. PICK roles, k, finish : Reads(view, counter, roles, k, finish)
            BY SomethingRead
        <2>2. PICK text, thoughts :
                 /\ text \in Seq(PieceNumber) /\ thoughts \in Seq(PieceNumber)
                 /\ view.content = text /\ view.reasoning = thoughts
                 /\ counter = CountOf(text, thoughts)
            BY <2>1, ReadsTexts
        <2>3. /\ counter.cjk = SumOf(Cjks(text)) + SumOf(Cjks(thoughts))
              /\ counter.other = SumOf(Others(text)) + SumOf(Others(thoughts))
            BY <2>2 DEF CountOf
        <2>4. text \in Seq(Nat) /\ thoughts \in Seq(Nat)
            BY <2>2, SumsOfPieces
        <2> DEFINE both == text \o thoughts
        <2>5. SumOf(Cjks(both)) = counter.cjk /\ SumOf(Others(both)) = counter.other
            BY <2>3, <2>4, WeightsOfBoth
        <2>6. EstimateTokens(both) = SumOf(Cjks(both)) + Quarters(SumOf(Others(both)))
            BY DEF EstimateTokens, Cjks, Others
        <2> QED
            BY <2>2, <2>5, <2>6 DEF CountsWhole, Tokens
    <1> QED
        BY <1>1, StreamCorrect, PTL

(***************************************************************************)
(* The exchange keeps its types: at most the bounded messages and pieces,  *)
(* at most one role and one finish read.                                   *)
(***************************************************************************)
THEOREM ExchangeTyped == Spec => []ExchangeTypes
    <1>1. StreamInv /\ MessagesInv => ExchangeTypes
        <2> SUFFICES ASSUME StreamInv, MessagesInv PROVE ExchangeTypes
            OBVIOUS
        <2>1. PICK roles, k, finish :
                 /\ roles \in {0, 1} /\ Len(finish) \in {0, 1}
                 /\ Reads(view, counter, roles, k, finish)
                 /\ phase \in {"streaming", "eof", "ended", "failed"} =>
                       answer.pieces \in 0..MaxPieces
            BY SomethingRead
        <2>2. view.roles \in {0, 1} /\ Len(view.finish) \in {0, 1}
            BY <2>1, ReadsFields
        <2>3. PICK text : text \in Seq(PieceNumber) /\ view.content = text
            BY <2>1, ReadsTexts
        <2>4. \A i \in DOMAIN text : text[i] \in PieceNumber
            BY <2>3
        <2> QED
            BY <2>1, <2>2, <2>3, <2>4
               DEF ExchangeTypes, StreamInv, PhasesInv, MessagesInv, Early, PieceNumber
    <1> QED
        BY <1>1, StreamCorrect, PTL

-----------------------------------------------------------------------------
(***************************************************************************)
(* The composition.  A behaviour of Passage is one of the limits, one of   *)
(* the tables and one of the exchange at once: what was proved of each     *)
(* holds while the others move.                                            *)
(***************************************************************************)
THEOREM PartsBehave == PassageSpec => AdmissionSpec /\ CatalogSpec /\ Spec
    <1>1. PassageInit => AdmissionInit /\ CatalogInit /\ Init
        BY DEF PassageInit
    <1>2. [PassageNext]_passageVars =>
             [AdmissionNext]_admissionVars /\ [CatalogNext]_catalogVars /\ [Next]_vars
        BY DEF PassageNext, AdmissionMoves, CatalogMoves, ExchangeMoves, passageVars
    <1> QED
        BY <1>1, <1>2, PTL DEF PassageSpec, AdmissionSpec, CatalogSpec, Spec

(***************************************************************************)
(* On its way a request meets limits that hold, tables in which the last   *)
(* commit is seen, and adapters whose calls leave out nothing that was     *)
(* said and pair answers with tool calls, which tell the same of a reply   *)
(* in chunks and whole but for the two differences StreamAgrees names,     *)
(* refuse late only a transcript in plain text, and bill as UnitsBilled    *)
(* says.                                                                   *)
(***************************************************************************)
THEOREM PassageCorrect ==
    PassageSpec => /\ [](/\ TypeOK
                         /\ RatesHeld /\ OvershootBounded
                         /\ LastCommitCached /\ ListingTrue
                         /\ WellFormed /\ CountsWhole
                         /\ ToolsPaired /\ NothingLost
                         /\ StreamAgrees
                         /\ LateRefusals /\ UnitsBilled)
                   /\ OwnEditSeen
    <1>1. AdmissionTypes /\ CatalogTypes /\ ExchangeTypes => TypeOK
        BY DEF TypeOK
    <1> QED
        BY <1>1, PartsBehave, AdmissionTyped, RatesProved, Overshoot, CatalogTyped, EditSeen,
           LastCommitSeen, ListingHolds, ExchangeTyped, ChunksWellFormed, CountedWhole,
           PairsKept, AllSaid, StreamedAsWhole, OnlyTextRefusedLate, UnitsCorrect, PTL
=============================================================================
