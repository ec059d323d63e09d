----------------------------- MODULE AacConfig -----------------------------
(***************************************************************************)
(* _parseAACAudioSpecificConfig of resources/flv.js: the configuration of  *)
(* the sound is read, and written anew in the form the viewer's browser is *)
(* best given it.                                                          *)
(***************************************************************************)
EXTENDS Integers, Sequences

Agents == {"firefox", "android", "other"}

\* _mpegSamplingRates
MpegSamplingRates ==
    <<96000, 88200, 64000, 48000, 44100, 32000, 24000, 22050, 16000, 12000, 11025, 8000, 7350>>

\* The object type the browser is told: 5 announces spectral band replication,
\* 2 is plain AAC, which Android is always told.
ObjectType(agent, samplingIndex, channels) ==
    CASE agent = "firefox" -> IF samplingIndex >= 6 THEN 5 ELSE 2
      [] agent = "android" -> 2
      [] OTHER -> IF samplingIndex < 6 /\ channels = 1 THEN 2 ELSE 5

ExtensionIndex(agent, samplingIndex) ==
    IF agent # "android" /\ samplingIndex >= 6 THEN samplingIndex - 3 ELSE samplingIndex

\* What was configured in two bytes is written in two or four.
Rewritten(type, index, channels, extension) ==
    LET first == 8 * type + index \div 2
        second == 128 * (index % 2) + 8 * channels
    IN  IF type = 5 THEN <<first, second + extension \div 2, 128 * (extension % 2) + 8, 0>>
        ELSE <<first, second>>

\* Five bits of object type, four of sampling index, four of channels.
SamplingIndex(bytes) == 2 * (bytes[1] % 8) + bytes[2] \div 128
Channels(bytes) == (bytes[2] % 128) \div 8

ParseAudioSpecificConfig(asc, agent) ==
    LET index == SamplingIndex(asc)
        channels == Channels(asc)
    IN  [samplingRate |-> MpegSamplingRates[index + 1], channelCount |-> channels,
         config |-> Rewritten(ObjectType(agent, index, channels), index, channels,
                              ExtensionIndex(agent, index))]
=============================================================================
