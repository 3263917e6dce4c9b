--------------------------- MODULE SampleBuffers ----------------------------
(***************************************************************************)
(* The samples of one sound: how the game fills them (Lock and Unlock of   *)
(* ds-buffer.c), the conversion to the system's format (converter.c) and   *)
(* the memory the duplicates of a buffer share (snd-buffer.c).             *)
(*                                                                         *)
(* A buffer in the system's own format hands the game pointers into the    *)
(* samples that are mixed.  Any other buffer hands out its conv_bytes,     *)
(* allocated when it is first locked, and converts all of them at Unlock.  *)
(* The duplicates of a buffer share its samples, but not its conv_bytes.   *)
(* Memory is counted in frames, the rates are those of the two formats.    *)
(***************************************************************************)
EXTENDS Naturals

CONSTANTS
  Interface,    \* IDirectSoundBuffers: the original and its duplicates
  Original,
  Sounds,       \* what the game may create: [rate, width, frames]
  System,       \* format_sys: [rate, width]
  Datum,        \* what a frame can hold
  Silence

ASSUME SampleAssumption ==
  /\ Original \in Interface /\ Silence \in Datum
  /\ System \in [rate : Nat \ {0}, width : Nat \ {0}]
  /\ Sounds \subseteq [rate : Nat \ {0}, width : Nat \ {0}, frames : Nat \ {0}]

VARIABLES
  sound,      \* the format and size of the buffer
  live,       \* interfaces the game holds
  conv,       \* conv and conv_bytes: not allocated, in use, or freed by a failure
  bytes,      \* what conv_bytes hold
  samples,    \* snd_buffer.samples
  locked,     \* interfaces between Lock and Unlock
  reach,      \* the frames the pointers of Lock cover, wherever they end
  asked,      \* history: the frames of the circular buffer Lock was asked for
  meant,      \* history: what the game has written through each interface
  heard       \* history: what should be audible

sampleVars == <<sound, live, conv, bytes, samples, locked, reach, asked, meant, heard>>

Filled(data, frames, d) == [i \in DOMAIN data |-> IF i \in frames THEN d ELSE data[i]]

Blank(n) == [i \in 0..(n - 1) |-> Silence]

-----------------------------------------------------------------------------
(* Conversion. *)

\* converter_calculate_dest_nbytes, in whole frames: a quotient rounded up.
DestFrames(n, from, to) == (n * to + (from - 1)) \div from

\* ds_buffer_requires_conversion
RequiresConversion ==
  sound.rate # System.rate \/ sound.width # System.width

SystemFrames(s) == DestFrames(s.frames, s.rate, System.rate)

\* acmStreamConvert: each frame is what sounds at that moment.
Converted(data) ==
  [j \in 0..(SystemFrames(sound) - 1) |-> data[(j * sound.rate) \div System.rate]]

-----------------------------------------------------------------------------
SampleTypeOK ==
  /\ sound \in Sounds
  /\ Original \in live /\ locked \subseteq live /\ live \subseteq Interface
  /\ conv \in [Interface -> {"none", "ready", "freed"}]
  /\ samples \in [0..(SystemFrames(sound) - 1) -> Datum]
  /\ bytes \in [Interface -> [0..(sound.frames - 1) -> Datum]]
  /\ \A h \in Interface :
       /\ reach[h] \subseteq Nat
       /\ h \in locked => RequiresConversion = (conv[h] = "ready")
       /\ conv[h] # "none" => h \in live

\* CreateSoundBuffer: snd_buffer_alloc zeroes the samples. The duplicates may
\* have been made already, or not.
SampleInit ==
  /\ sound \in Sounds
  /\ live \in {{Original}, Interface}
  /\ conv = [h \in Interface |-> "none"]
  /\ samples = Blank(SystemFrames(sound))
  /\ locked = {}
  /\ reach = [h \in Interface |-> {}] /\ asked = [h \in Interface |-> {}]
  /\ bytes = [h \in Interface |-> Blank(sound.frames)]
  /\ meant = [h \in Interface |-> Blank(sound.frames)]
  /\ heard = Blank(sound.frames)

\* DuplicateSoundBuffer: the samples of the original, no conversion yet.
Duplicate(h) ==
  /\ h \notin live
  /\ live' = live \union {h}
  /\ meant' = [meant EXCEPT ![h] = IF RequiresConversion THEN Blank(sound.frames) ELSE heard]
  /\ UNCHANGED <<sound, conv, bytes, samples, locked, reach, asked, heard>>

\* The last Release of a duplicate frees its conv_bytes and its converter; the
\* samples stay, with the buffer they belong to.
ReleaseDuplicate(h) ==
  /\ h \in live \ (locked \union {Original})
  /\ live' = live \ {h}
  /\ conv' = [conv EXCEPT ![h] = "none"]
  /\ bytes' = [bytes EXCEPT ![h] = Blank(sound.frames)]
  /\ meant' = [meant EXCEPT ![h] = Blank(sound.frames)]
  /\ UNCHANGED <<sound, samples, locked, reach, asked, heard>>

-----------------------------------------------------------------------------
(* Lock and Unlock. *)

\* Mutant: the conversion is prepared again by every Lock.
PrepareAgain(h) ==
  IF RequiresConversion
  THEN /\ conv' = [conv EXCEPT ![h] = "ready"]
       /\ bytes' = [bytes EXCEPT ![h] = Blank(sound.frames)]
  ELSE UNCHANGED <<conv, bytes>>

\* ds_buffer_prepare_conversion: conv_bytes are zeroed, once.  After a failure
\* they are allocated once more (the assertion is compiled out of a release).
Prepare(h) ==
  IF RequiresConversion /\ conv[h] # "ready"
  THEN /\ conv' = [conv EXCEPT ![h] = "ready"]
       /\ bytes' = [bytes EXCEPT ![h] = Blank(sound.frames)]
  ELSE UNCHANGED <<conv, bytes>>

\* The frames of the spans of a Lock at p of n: the first is cut at the end of
\* the buffer; the second, if the game takes one, starts at its beginning and
\* is not cut.
Spans(p, n, two) ==
  LET end == p + n
      over == end > sound.frames
  IN  (p..((IF over THEN sound.frames ELSE end) - 1))
        \union (IF two /\ over THEN 0..(end - sound.frames - 1) ELSE {})

\* What n frames from p are in a circular buffer, or in one that ends.
Circle(p, n, two) ==
  {(p + i) % sound.frames : i \in {j \in 0..(n - 1) : two \/ p + j < sound.frames}}

\* Lock at frame p of n, with or without pointers for a second span.
Lock(h, p, n, two) ==
  /\ h \in live \ locked
  /\ Prepare(h)
  /\ locked' = locked \union {h}
  /\ reach' = [reach EXCEPT ![h] = Spans(p, n, two)]
  /\ asked' = [asked EXCEPT ![h] = Circle(p, n, two)]
  /\ UNCHANGED <<sound, live, samples, meant, heard>>

\* ... whose conversion cannot be prepared: no converter takes the format or no
\* memory is left.  conv_bytes are freed but not forgotten.
LockFails(h) ==
  /\ h \in live \ locked
  /\ RequiresConversion /\ conv[h] # "ready"
  /\ \E left \in {conv[h], "freed"} : conv' = [conv EXCEPT ![h] = left]
  /\ UNCHANGED <<sound, live, bytes, samples, locked, reach, asked, meant, heard>>

\* The game fills the spans it was given. What a write beyond the buffer would
\* do to other memory is not modelled.
Write(h, d) ==
  /\ h \in locked /\ reach[h] \subseteq 0..(sound.frames - 1)
  /\ IF RequiresConversion
     THEN /\ bytes' = [bytes EXCEPT ![h] = Filled(bytes[h], reach[h], d)]
          /\ meant' = [meant EXCEPT ![h] = Filled(meant[h], asked[h], d)]
          /\ UNCHANGED <<samples, heard>>
     ELSE /\ samples' = Filled(samples, reach[h], d)
          /\ meant' = [i \in Interface |-> Filled(heard, asked[h], d)]
          /\ heard' = Filled(heard, asked[h], d)
          /\ UNCHANGED bytes
  /\ UNCHANGED <<sound, live, conv, locked, reach, asked>>

\* converter_convert, of the whole buffer whatever was locked.
Convert(h) ==
  samples' = Converted(bytes[h]) /\ heard' = meant[h]

\* Unlock converts; a conversion that fails leaves the samples as they were.
Unlock(h) ==
  /\ h \in locked
  /\ \/ conv[h] = "ready" /\ Convert(h)
     \/ UNCHANGED <<samples, heard>>
  /\ locked' = locked \ {h}
  /\ reach' = [reach EXCEPT ![h] = {}] /\ asked' = [asked EXCEPT ![h] = {}]
  /\ UNCHANGED <<sound, live, conv, bytes, meant>>

-----------------------------------------------------------------------------
(* What is audible is what the game has written, in the circular buffer it *)
(* takes its buffer for: through whichever interface, if no conversion is  *)
(* needed, and otherwise through the interface whose Unlock converted last *)
(* (a duplicate does not see what was written through the original: all    *)
(* its own Unlock does is to replace it).                                  *)
HeardIsWritten ==
  samples = IF RequiresConversion THEN Converted(heard) ELSE heard
=============================================================================
