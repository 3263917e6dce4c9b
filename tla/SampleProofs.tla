---------------------------- MODULE SampleProofs ----------------------------
(* Proofs about one sound with its samples and its play cursor, for any    *)
(* formats, any size and any number of duplicates.                         *)
EXTENDS Sound, PlaybackProofs

(* A quotient rounded up: the least whole number of frames that lasts long  *)
(* enough.                                                                 *)
LEMMA QuotientUp ==
  ASSUME NEW n \in Nat, NEW to \in Nat, NEW from \in Nat \ {0}
  PROVE  /\ DestFrames(n, from, to) \in Nat
         /\ DestFrames(n, from, to) * from <= n * to + (from - 1)
         /\ n * to <= DestFrames(n, from, to) * from
  <1> DEFINE x == n * to  q == (x + (from - 1)) \div from
  <1>1. x \in Nat
    OBVIOUS
  <1> HIDE DEF x
  <1>2. /\ q \in Nat
        /\ q * from <= x + (from - 1)
        /\ x + (from - 1) < q * from + from
    BY <1>1, SMT
  <1>3. x <= q * from
    BY <1>1, <1>2, SMT
  <1> QED
    BY <1>2, <1>3 DEF DestFrames, x

(* Every frame that is mixed comes from one the game has written to, or     *)
(* could have.                                                              *)
LEMMA SourceFrames ==
  ASSUME sound \in Sounds
  PROVE  \A j \in 0..(SystemFrames(sound) - 1) :
           (j * sound.rate) \div System.rate \in 0..(sound.frames - 1)
  <1> DEFINE S == SystemFrames(sound)  N == sound.frames  r == sound.rate  s == System.rate
  <1>1. N \in Nat \ {0} /\ r \in Nat \ {0} /\ s \in Nat \ {0}
    BY SampleAssumption
  <1>2. S \in Nat /\ S * r <= N * s + (r - 1)
    BY <1>1, QuotientUp DEF SystemFrames
  <1>3. ASSUME NEW j \in 0..(S - 1) PROVE (j * r) \div s \in 0..(N - 1)
    <2> HIDE DEF S, N, r, s
    <2>1. j \in Nat /\ j + 1 <= S
      BY <1>2
    <2>2. (j + 1) * r <= S * r
      BY <1>1, <1>2, <2>1, SMT
    <2>3. j * r < N * s /\ j * r \in Nat
      BY <1>1, <1>2, <2>1, <2>2, SMT
    <2> QED
      BY <1>1, <2>3, SMT
  <1> QED
    BY <1>3

(* The play cursor, wherever the stream is before its end: f frames of the  *)
(* system's format cannot last longer than the buffer they came from; and   *)
(* where nothing is converted, f is the cursor.                             *)
THEOREM CursorSafe == SoundTypeOK => CursorBound
  <1> SUFFICES ASSUME SoundTypeOK, pos < Length
               PROVE  IF sound.rate = System.rate THEN Cursor < sound.frames
                                                  ELSE Cursor <= sound.frames
    BY DEF CursorBound
  <1> DEFINE N == sound.frames  r == sound.rate  s == System.rate
             f == pos \div 2  S == SystemFrames(sound)  c == Cursor
  <1>1. N \in Nat \ {0} /\ r \in Nat \ {0} /\ s \in Nat \ {0} /\ Length = 2 * S
    BY SampleAssumption, SoundAssumption DEF SoundTypeOK, SampleTypeOK
  <1>2. S \in Nat /\ S * r <= N * s + (r - 1)
    BY <1>1, QuotientUp DEF SystemFrames
  <1>3. f \in Nat /\ f + 1 <= S
    BY <1>1, <1>2 DEF SoundTypeOK, TypeOK
  <1>4. c \in Nat /\ c * s <= f * r + (s - 1)
    <2>1. c = DestFrames(f, s, r)
      BY DEF Cursor
    <2> QED
      BY <1>1, <1>3, <2>1, QuotientUp
  <1> HIDE DEF N, r, s, f, S, c
  <1>5. (f + 1) * r <= S * r
    BY <1>1, <1>2, <1>3, SMT
  <1>6. f * r + r <= N * s + (r - 1)
    BY <1>1, <1>2, <1>3, <1>5, SMT
  <1>7. f * r + 1 <= N * s
    BY <1>1, <1>3, <1>6, SMT
  <1>8. c * s < (N + 1) * s
    BY <1>1, <1>3, <1>4, <1>7, SMT
  <1>9. c <= N
    BY <1>1, <1>4, <1>8, SMT
  <1>10. ASSUME r = s PROVE c < N
    <2>1. c * s < N * s + s /\ f * s + 1 <= N * s /\ c * s <= f * s + (s - 1)
      BY <1>1, <1>3, <1>4, <1>7, <1>10, SMT
    <2>2. c * s < (f + 1) * s /\ f * s < N * s
      BY <1>1, <1>3, <1>4, <2>1, SMT
    <2>3. c < f + 1 /\ f < N
      BY <1>1, <1>3, <1>4, <2>2, SMT
    <2> QED
      BY <1>1, <1>3, <1>4, <2>3
  <1> QED
    BY <1>9, <1>10 DEF c, N, r, s

-----------------------------------------------------------------------------
(* The spans of a Lock are the part of the circle it was asked for, when   *)
(* they stay in the buffer.                                                 *)
LEMMA SpansAreCircle ==
  ASSUME sound \in Sounds,
         NEW p \in 0..sound.frames, NEW n \in 1..(sound.frames + 1), NEW two \in BOOLEAN,
         Spans(p, n, two) \subseteq 0..(sound.frames - 1)
  PROVE  Spans(p, n, two) = Circle(p, n, two)
  <1> DEFINE F == sound.frames
  <1>1. F \in Nat \ {0} /\ p \in Nat /\ p <= F /\ n \in Nat /\ n <= F + 1
    BY SampleAssumption
  <1>2. \A i \in Spans(p, n, two) :
          i \in Nat /\ i < F /\ ((p <= i /\ i < p + n) \/ (two /\ p + n > F /\ i < p + n - F))
    BY <1>1 DEF Spans
  <1>3. \A i \in Nat :
          i < F /\ ((p <= i /\ i < p + n) \/ (two /\ p + n > F /\ i < p + n - F))
            => i \in Spans(p, n, two)
    BY <1>1 DEF Spans
  <1>4. two /\ p + n > F => p + n - F - 1 < F
    <2>1. SUFFICES ASSUME two, p + n > F PROVE p + n - F - 1 < F
      OBVIOUS
    <2>2. p + n - F - 1 \in Spans(p, n, two)
      BY <1>1, <2>1 DEF Spans
    <2> QED
      BY <1>1, <2>2
  <1>5. Circle(p, n, two) = {(p + i) % F : i \in {j \in 0..(n - 1) : two \/ p + j < F}}
    BY DEF Circle
  <1> HIDE DEF F
  <1>6. \A x \in Nat : x < F => x % F = x
    BY <1>1, SMT
  <1>7. \A x \in Nat : x < F => (x + F) % F = x
    BY <1>1, SMT
  <1>8. ASSUME NEW i \in Spans(p, n, two) PROVE i \in Circle(p, n, two)
    <2>1. i \in Nat /\ i < F /\ ((p <= i /\ i < p + n) \/ (two /\ p + n > F /\ i < p + n - F))
      BY <1>2
    <2>2. CASE p <= i /\ i < p + n
      <3> DEFINE j == i - p
      <3>1. j \in 0..(n - 1) /\ p + j < F /\ (p + j) % F = i
        BY <1>1, <1>6, <2>1, <2>2
      <3> QED
        BY <1>5, <3>1
    <2>3. CASE two /\ p + n > F /\ i < p + n - F
      <3> DEFINE j == i + F - p
      <3>1. j \in 0..(n - 1) /\ p + j = i + F
        BY <1>1, <2>1, <2>3
      <3>2. (p + j) % F = i
        BY <1>7, <2>1, <3>1
      <3> QED
        BY <1>5, <2>3, <3>1, <3>2
    <2> QED
      BY <2>1, <2>2, <2>3
  <1>9. ASSUME NEW i \in Circle(p, n, two) PROVE i \in Spans(p, n, two)
    <2>1. PICK j \in 0..(n - 1) : (two \/ p + j < F) /\ i = (p + j) % F
      BY <1>5
    <2>2. CASE p + j < F
      <3>1. i = p + j
        BY <1>1, <1>6, <2>1, <2>2
      <3> QED
        BY <1>1, <1>3, <2>1, <2>2, <3>1
    <2>3. CASE p + j >= F
      <3> DEFINE k == p + j - F
      <3>1. two /\ k \in Nat /\ k + F = p + j /\ k < p + n - F /\ p + n > F
        BY <1>1, <2>1, <2>3
      <3>2. k < F
        BY <1>1, <1>4, <3>1
      <3>3. i = k
        BY <1>7, <2>1, <3>1, <3>2
      <3> QED
        BY <1>1, <1>3, <3>1, <3>2, <3>3
    <2> QED
      BY <1>1, <2>1, <2>2, <2>3
  <1> QED
    BY <1>8, <1>9

-----------------------------------------------------------------------------
(* The inductive invariant: pointers reach what was asked for, or out of    *)
(* the buffer; conv_bytes in use hold what the game wrote through them, and *)
(* only a buffer that needs them has them; an interface without them has    *)
(* written nothing.                                                         *)
MemoryOK ==
  /\ sound \in Sounds
  /\ conv \in [Interface -> {"none", "ready", "freed"}]
  /\ bytes = [h \in Interface |-> bytes[h]]
  /\ meant = [h \in Interface |-> meant[h]]
  /\ reach = [h \in Interface |-> reach[h]]
  /\ asked = [h \in Interface |-> asked[h]]
  /\ locked \subseteq live

PointersReach ==
  \A h \in Interface : reach[h] \subseteq 0..(sound.frames - 1) => reach[h] = asked[h]

ConversionHolds ==
  \A h \in Interface :
    /\ conv[h] = "ready" => RequiresConversion /\ bytes[h] = meant[h]
    /\ conv[h] # "none" => h \in live
    /\ h \in locked /\ RequiresConversion => conv[h] = "ready"
    /\ RequiresConversion /\ conv[h] # "ready" => meant[h] = Blank(sound.frames)

SampleInv == MemoryOK /\ PointersReach /\ ConversionHolds /\ HeardIsWritten

LEMMA SampleInvInit == SampleInit => SampleInv
  <1> SUFFICES ASSUME SampleInit PROVE SampleInv
    OBVIOUS
  <1>1. MemoryOK /\ PointersReach /\ ConversionHolds
    BY DEF SampleInit, MemoryOK, PointersReach, ConversionHolds
  <1>2. HeardIsWritten
    <2>1. CASE ~RequiresConversion
      <3>1. SystemFrames(sound) = sound.frames
        <4> DEFINE N == sound.frames  r == System.rate  q == DestFrames(N, r, r)
        <4>1. N \in Nat \ {0} /\ r \in Nat \ {0} /\ sound.rate = r
          BY <2>1, SampleAssumption DEF SampleInit, RequiresConversion
        <4>2. q \in Nat /\ q * r <= N * r + (r - 1) /\ N * r <= q * r
          BY <4>1, QuotientUp
        <4> HIDE DEF N, r, q
        <4>3. q * r < (N + 1) * r
          BY <4>1, <4>2, SMT
        <4>4. q <= N /\ N <= q
          BY <4>1, <4>2, <4>3, SMT
        <4> QED
          BY <4>1, <4>2, <4>4 DEF SystemFrames, N, r, q
      <3> QED
        BY <2>1, <3>1 DEF SampleInit, HeardIsWritten
    <2>2. CASE RequiresConversion
      <3> DEFINE S == SystemFrames(sound)  N == sound.frames
      <3>3. \A j \in 0..(S - 1) : (j * sound.rate) \div System.rate \in 0..(N - 1)
        BY SourceFrames DEF SampleInit
      <3>4. Converted(Blank(N)) = Blank(S)
        BY <3>3 DEF Converted, Blank
      <3> QED
        BY <2>2, <3>4 DEF SampleInit, HeardIsWritten
    <2> QED
      BY <2>1, <2>2
  <1> QED
    BY <1>1, <1>2 DEF SampleInv

(* The calls about the samples, one by one. *)
LEMMA DuplicateKeeps ==
  ASSUME SampleInv, NEW h \in Interface, Duplicate(h) PROVE SampleInv'
  <1> USE DEF SampleInv, Duplicate, RequiresConversion
  <1>1. MemoryOK' /\ PointersReach'
    BY DEF MemoryOK, PointersReach
  <1>2. ConversionHolds'
    BY DEF MemoryOK, ConversionHolds
  <1>3. HeardIsWritten'
    BY DEF HeardIsWritten, Converted, SystemFrames
  <1> QED
    BY <1>1, <1>2, <1>3

LEMMA ReleaseKeeps ==
  ASSUME SampleInv, NEW h \in Interface, ReleaseDuplicate(h) PROVE SampleInv'
  <1> USE DEF SampleInv, ReleaseDuplicate, RequiresConversion
  <1>1. MemoryOK' /\ PointersReach'
    BY DEF MemoryOK, PointersReach
  <1>2. ConversionHolds'
    BY DEF MemoryOK, ConversionHolds
  <1>3. HeardIsWritten'
    BY DEF HeardIsWritten, Converted, SystemFrames
  <1> QED
    BY <1>1, <1>2, <1>3

LEMMA LockKeeps ==
  ASSUME SampleInv, NEW h \in Interface, NEW p \in 0..sound.frames,
         NEW n \in 1..(sound.frames + 1), NEW two \in BOOLEAN, Lock(h, p, n, two)
  PROVE  SampleInv'
  <1> USE DEF SampleInv, Lock, RequiresConversion
  <1>1. Spans(p, n, two) \subseteq 0..(sound.frames - 1) => Spans(p, n, two) = Circle(p, n, two)
    BY SpansAreCircle DEF MemoryOK
  <1>2. MemoryOK' /\ PointersReach'
    BY <1>1 DEF MemoryOK, PointersReach, Prepare
  <1>3. ConversionHolds'
    BY DEF MemoryOK, ConversionHolds, Prepare
  <1>4. HeardIsWritten'
    BY DEF HeardIsWritten, Converted, SystemFrames
  <1> QED
    BY <1>2, <1>3, <1>4

LEMMA LockFailsKeeps ==
  ASSUME SampleInv, NEW h \in Interface, LockFails(h) PROVE SampleInv'
  <1> USE DEF SampleInv, LockFails, RequiresConversion
  <1>1. MemoryOK' /\ PointersReach'
    BY DEF MemoryOK, PointersReach
  <1>2. ConversionHolds'
    BY DEF MemoryOK, ConversionHolds
  <1>3. HeardIsWritten'
    BY DEF HeardIsWritten, Converted, SystemFrames
  <1> QED
    BY <1>1, <1>2, <1>3

LEMMA WriteKeeps ==
  ASSUME SampleInv, NEW h \in Interface, NEW d, Write(h, d) PROVE SampleInv'
  <1> USE DEF SampleInv, Write, RequiresConversion
  <1>1. reach[h] = asked[h]
    BY DEF PointersReach
  <1>2. MemoryOK' /\ PointersReach'
    BY DEF MemoryOK, PointersReach
  <1>3. CASE RequiresConversion
    <2>1. bytes[h] = meant[h] /\ conv[h] = "ready"
      BY <1>3 DEF ConversionHolds
    <2>2. ConversionHolds'
      BY <1>1, <1>3, <2>1 DEF MemoryOK, ConversionHolds
    <2>3. HeardIsWritten'
      BY <1>3 DEF HeardIsWritten, Converted, SystemFrames
    <2> QED
      BY <1>2, <2>2, <2>3
  <1>4. CASE ~RequiresConversion
    <2>1. ConversionHolds'
      BY <1>4 DEF MemoryOK, ConversionHolds
    <2>2. HeardIsWritten'
      BY <1>1, <1>4 DEF HeardIsWritten
    <2> QED
      BY <1>2, <2>1, <2>2
  <1> QED
    BY <1>3, <1>4

LEMMA UnlockKeeps ==
  ASSUME SampleInv, NEW h \in Interface, Unlock(h) PROVE SampleInv'
  <1> USE DEF SampleInv, Unlock, RequiresConversion
  <1>1. MemoryOK' /\ PointersReach'
    BY DEF MemoryOK, PointersReach
  <1>2. ConversionHolds'
    BY DEF MemoryOK, ConversionHolds
  <1>3. HeardIsWritten'
    <2>1. CASE UNCHANGED <<samples, heard>>
      BY <2>1 DEF HeardIsWritten, Converted, SystemFrames
    <2>2. CASE conv[h] = "ready" /\ Convert(h)
      <3>1. RequiresConversion /\ samples' = Converted(meant[h]) /\ heard' = meant[h]
        BY <2>2 DEF ConversionHolds, Convert
      <3> QED
        BY <3>1 DEF HeardIsWritten, Converted, SystemFrames
    <2> QED
      BY <2>1, <2>2
  <1> QED
    BY <1>1, <1>2, <1>3

LEMMA SampleInvKept == SampleInv /\ [SoundNext]_soundVars => SampleInv'
  <1> SUFFICES ASSUME SampleInv, [SoundNext]_soundVars PROVE SampleInv'
    OBVIOUS
  <1>1. CASE UNCHANGED sampleVars
    BY <1>1 DEF sampleVars, SampleInv, MemoryOK, PointersReach, ConversionHolds,
                HeardIsWritten, RequiresConversion, Converted, SystemFrames
  <1>2. CASE SampleCall
    <2>1. PICK h \in Interface :
            \/ Duplicate(h) \/ ReleaseDuplicate(h) \/ LockFails(h) \/ Unlock(h)
            \/ \E p \in 0..sound.frames, n \in 1..(sound.frames + 1), two \in BOOLEAN :
                 Lock(h, p, n, two)
      BY <1>2 DEF SampleCall
    <2> QED
      BY <2>1, DuplicateKeeps, ReleaseKeeps, LockKeeps, LockFailsKeeps, UnlockKeeps
  <1>3. CASE GameWrites
    BY <1>3, WriteKeeps DEF GameWrites
  <1> QED
    BY <1>1, <1>2, <1>3
    DEF SoundNext, soundVars, PlaybackCall, ToneCall, ToneUpdates, Renders, Equalises

(* What is audible is what the game has written, in every format, whatever  *)
(* it locks, writes and duplicates, and whatever fails.                     *)
THEOREM WritesAreHeard == SoundSpec => []HeardIsWritten
  <1>1. SoundInit => SampleInv
    BY SampleInvInit DEF SoundInit
  <1>2. SampleInv => HeardIsWritten
    BY DEF SampleInv
  <1> QED
    BY <1>1, <1>2, SampleInvKept, PTL DEF SoundSpec

(* The calls about samples and controls send no command: what is proved of  *)
(* a sound played alone holds between them too.                             *)
LEMMA PlaybackInvKept == PlaybackInv /\ [SoundNext]_soundVars => PlaybackInv'
  <1> SUFFICES ASSUME PlaybackInv, [SoundNext]_soundVars PROVE PlaybackInv'
    OBVIOUS
  <1>1. CASE [Next]_vars
    BY <1>1, InvStep
  <1>2. CASE OtherCall
    BY <1>2 DEF OtherCall, bufferVars, renderVars, streamVars, PlaybackInv, FlowTypeOK,
       RenderHolds, FollowsLast, GameAsked, InFlight, LastOf
  <1>3. [Next]_vars \/ OtherCall
    BY DEF SoundNext, soundVars, SampleCall, GameWrites, ToneCall, ToneUpdates, PlaybackCall,
       Renders, Equalises, Next
  <1> QED
    BY <1>1, <1>2, <1>3

(* With its samples filled, duplicated and converted meanwhile, a sound     *)
(* still does what the game's last command said.                            *)
THEOREM SoundFollowsCommands == SoundSpec => []StreamFollowsCommands
  <1>1. SoundInit => PlaybackInv
    BY InvInit DEF SoundInit
  <1>2. PlaybackInv => StreamFollowsCommands
    BY DEF PlaybackInv, FollowsLast, StreamFollowsCommands, Starts, LastOf
  <1> QED
    BY <1>1, <1>2, PlaybackInvKept, PTL DEF SoundSpec

-----------------------------------------------------------------------------
(* The types of the samples. *)
Frames == 0..(sound.frames - 1)

Mixed == 0..(SystemFrames(sound) - 1)

LEMMA BlankFrames ==
  ASSUME NEW n \in Nat
  PROVE  Blank(n) \in [0..(n - 1) -> Datum]
  BY SampleAssumption DEF Blank

LEMMA FilledFrames ==
  ASSUME NEW S, NEW data \in [S -> Datum], NEW frames, NEW d \in Datum
  PROVE  Filled(data, frames, d) \in [S -> Datum]
  BY DEF Filled

LEMMA ConvertedFrames ==
  ASSUME sound \in Sounds, NEW data \in [Frames -> Datum]
  PROVE  Converted(data) \in [Mixed -> Datum]
  BY SourceFrames DEF Converted, Frames, Mixed

\* What SampleTypeOK says beyond the inductive invariant.
DataTypes ==
  /\ Original \in live /\ live \subseteq Interface
  /\ samples \in [Mixed -> Datum]
  /\ bytes \in [Interface -> [Frames -> Datum]]
  /\ \A h \in Interface : reach[h] \subseteq Nat

LEMMA SampleTypes == SampleInv /\ DataTypes => SampleTypeOK
  <1> SUFFICES ASSUME SampleInv, DataTypes PROVE SampleTypeOK
    OBVIOUS
  <1>1. ASSUME NEW h \in Interface
        PROVE  /\ h \in locked => RequiresConversion = (conv[h] = "ready")
               /\ conv[h] # "none" => h \in live
    BY DEF SampleInv, ConversionHolds, RequiresConversion
  <1> QED
    BY <1>1 DEF SampleInv, MemoryOK, DataTypes, SampleTypeOK, Frames, Mixed

LEMMA DataTypesInit == SampleInit => DataTypes
  <1> SUFFICES ASSUME SampleInit PROVE DataTypes
    OBVIOUS
  <1>1. sound \in Sounds /\ sound.frames \in Nat \ {0} /\ sound.rate \in Nat \ {0}
        /\ System.rate \in Nat \ {0}
    BY SampleAssumption DEF SampleInit
  <1>2. SystemFrames(sound) \in Nat
    BY <1>1, QuotientUp DEF SystemFrames
  <1>3. Blank(sound.frames) \in [Frames -> Datum]
    BY <1>1, BlankFrames DEF Frames
  <1>4. samples \in [Mixed -> Datum]
    BY <1>2, BlankFrames DEF Mixed, SampleInit
  <1> QED
    BY <1>3, <1>4, SampleAssumption DEF SampleInit, DataTypes

LEMMA DataTypesKept == SampleInv /\ DataTypes /\ [SoundNext]_soundVars => DataTypes'
  <1> SUFFICES ASSUME SampleInv, DataTypes, [SoundNext]_soundVars PROVE DataTypes'
    OBVIOUS
  <1>1. sound \in Sounds /\ sound.frames \in Nat \ {0}
    BY SampleAssumption DEF SampleInv, MemoryOK
  <1>2. Blank(sound.frames) \in [Frames -> Datum]
    BY <1>1, BlankFrames DEF Frames
  <1>3. CASE UNCHANGED sampleVars
    BY <1>3 DEF sampleVars, DataTypes, Frames, Mixed, SystemFrames
  <1>4. CASE GameWrites
    <2>1. PICK h \in Interface, d \in Datum \ {Silence} : Write(h, d)
      BY <1>4 DEF GameWrites
    <2>2. Filled(samples, reach[h], d) \in [Mixed -> Datum]
      BY FilledFrames DEF DataTypes
    <2>3. Filled(bytes[h], reach[h], d) \in [Frames -> Datum]
      BY FilledFrames DEF DataTypes
    <2>4. UNCHANGED <<sound, live, reach, Frames, Mixed>>
      BY <2>1 DEF Write, Frames, Mixed, SystemFrames
    <2>5. samples' \in [Mixed -> Datum]
      BY <2>1, <2>2 DEF Write, DataTypes
    <2>6. bytes' \in [Interface -> [Frames -> Datum]]
      BY <2>1, <2>3 DEF Write, DataTypes
    <2> QED
      BY <2>4, <2>5, <2>6 DEF DataTypes
  <1>5. CASE SampleCall
    <2>0. PICK h \in Interface :
            \/ Duplicate(h) \/ ReleaseDuplicate(h) \/ LockFails(h) \/ Unlock(h)
            \/ \E p \in 0..sound.frames, n \in 1..(sound.frames + 1), two \in BOOLEAN :
                 Lock(h, p, n, two)
      BY <1>5 DEF SampleCall
    <2>1. CASE Duplicate(h)
      BY <2>1 DEF Duplicate, DataTypes, Frames, Mixed, SystemFrames
    <2>2. CASE ReleaseDuplicate(h)
      <3>1. bytes' \in [Interface -> [Frames -> Datum]]
        BY <2>2, <1>2 DEF ReleaseDuplicate, DataTypes
      <3>2. Original \in live' /\ live' \subseteq Interface
        BY <2>2 DEF ReleaseDuplicate, DataTypes
      <3>3. UNCHANGED <<samples, reach, Frames, Mixed>>
        BY <2>2 DEF ReleaseDuplicate, Frames, Mixed, SystemFrames
      <3> QED
        BY <3>1, <3>2, <3>3 DEF DataTypes
    <2>3. CASE LockFails(h)
      BY <2>3 DEF LockFails, DataTypes, Frames, Mixed, SystemFrames
    <2>4. CASE Unlock(h)
      <3>1. Converted(bytes[h]) \in [Mixed -> Datum]
        BY <1>1, ConvertedFrames DEF DataTypes
      <3>2. samples' \in [Mixed -> Datum]
        BY <2>4, <3>1 DEF Unlock, Convert, DataTypes
      <3>3. \A k \in Interface : reach'[k] \subseteq Nat
        BY <2>4 DEF Unlock, DataTypes, SampleInv, MemoryOK
      <3>4. UNCHANGED <<live, bytes, Frames, Mixed>>
        BY <2>4 DEF Unlock, Frames, Mixed, SystemFrames
      <3> QED
        BY <3>2, <3>3, <3>4 DEF DataTypes
    <2>5. ASSUME NEW p \in 0..sound.frames, NEW n \in 1..(sound.frames + 1),
                 NEW two \in BOOLEAN, Lock(h, p, n, two)
          PROVE  DataTypes'
      <3>1. bytes' \in [Interface -> [Frames -> Datum]]
        BY <2>5, <1>2 DEF Lock, Prepare, DataTypes
      <3>2. Spans(p, n, two) \subseteq Nat
        BY <1>1 DEF Spans
      <3>3. \A k \in Interface : reach'[k] \subseteq Nat
        BY <2>5, <3>2 DEF Lock, DataTypes, SampleInv, MemoryOK
      <3>4. UNCHANGED <<live, samples, Frames, Mixed>>
        BY <2>5 DEF Lock, Frames, Mixed, SystemFrames
      <3> QED
        BY <3>1, <3>3, <3>4 DEF DataTypes
    <2> QED
      BY <2>0, <2>1, <2>2, <2>3, <2>4, <2>5
  <1> QED
    BY <1>3, <1>4, <1>5
    DEF SoundNext, soundVars, PlaybackCall, ToneCall, ToneUpdates, Renders, Equalises

-----------------------------------------------------------------------------
(* The types of the tone controls. *)
LEMMA EqTypesInit == EqInit => EqTypeOK
  BY EqAssumption DEF EqInit, EqTypeOK, For, Coefficients

LEMMA EqTypesKept == EqTypeOK /\ [SoundNext]_soundVars => EqTypeOK'
  <1> SUFFICES ASSUME EqTypeOK, [SoundNext]_soundVars PROVE EqTypeOK'
    OBVIOUS
  <1> DEFINE Kind == Part \union Channel \union {"on", "off"}
             Store == [band : Band, store : Kind]
  <1>1. CASE UNCHANGED eqVars
    BY <1>1 DEF eqVars, EqTypeOK
  <1>2. CASE ToneCall
    <2>1. PICK b \in Band, v \in Fader : SetControl(b, v)
      BY <1>2 DEF ToneCall
    <2>2. fader' \in [Band -> Fader]
      BY <2>1 DEF SetControl, EqTypeOK
    <2>3. Stores(v) \in Seq(Kind)
      <3>1. <<"off", "left", "right">> \in Seq(Kind)
        BY DEF Part, Channel
      <3>2. <<"numerator", "denominator", "on">> \in Seq(Kind)
        BY DEF Part, Channel
      <3> QED
        BY <3>1, <3>2 DEF Stores
    <2>4. PICK s \in Seq(Kind) : s = Stores(v)
      BY <2>3
    <2>5. [i \in DOMAIN s |-> [band |-> b, store |-> s[i]]] \in Seq(Store)
      <3>1. DOMAIN s = 1..Len(s) /\ Len(s) \in Nat
        BY <2>4
      <3>2. \A i \in 1..Len(s) : [band |-> b, store |-> s[i]] \in Store
        BY <2>4
      <3> QED
        BY <3>1, <3>2
    <2>6. update' \in Seq(Store)
      BY <2>1, <2>4, <2>5 DEF SetControl
    <2> QED
      BY <2>1, <2>2, <2>6 DEF SetControl, EqTypeOK
  <1>3. CASE ToneUpdates
    <2>1. UpdateStores /\ update \in Seq(Store) /\ update # <<>>
      BY <1>3 DEF ToneUpdates, UpdateStores, EqTypeOK
    <2>2. update' \in Seq(Store) /\ Head(update) \in Store
      <3> HIDE DEF Store
      <3>1. update' = Tail(update)
        BY <2>1 DEF UpdateStores
      <3> QED
        BY <2>1, <3>1
    <2>3. PICK b \in Band, s \in Kind : b = Head(update).band /\ s = Head(update).store
      BY <2>2
    <2>4. coeffs' \in [Band -> Coefficients]
      <3>1. fader[b] \in Fader /\ coeffs[b] \in Coefficients
        BY DEF EqTypeOK
      <3>2. CASE s \in Part
        <4>1. [coeffs[b] EXCEPT ![s] = fader[b]] \in Coefficients
          BY <3>1, <3>2 DEF Coefficients
        <4>2. coeffs' = [coeffs EXCEPT ![b] = [coeffs[b] EXCEPT ![s] = fader[b]]]
          BY <2>1, <2>3, <3>2 DEF UpdateStores, EqTypeOK
        <4> QED
          BY <4>1, <4>2 DEF EqTypeOK
      <3>3. CASE s \notin Part
        BY <2>1, <2>3, <3>3 DEF UpdateStores, EqTypeOK
      <3> QED
        BY <3>2, <3>3
    <2>5. enabled' \in [Band -> BOOLEAN]
      <3>1. PICK on \in BOOLEAN : on = (s = "on")
        OBVIOUS
      <3>2. enabled' = IF s \in {"on", "off"} THEN [enabled EXCEPT ![b] = on] ELSE enabled
        BY <2>1, <2>3, <3>1 DEF UpdateStores
      <3> QED
        BY <3>2 DEF EqTypeOK
    <2>6. filter' \in [Band -> [Channel -> Coefficients]]
      <3>1. filter[b] \in [Channel -> Coefficients] /\ For(Default) \in Coefficients
        BY EqAssumption DEF EqTypeOK, For, Coefficients
      <3>2. CASE s \in Channel
        <4>1. [filter[b] EXCEPT ![s] = For(Default)] \in [Channel -> Coefficients]
          BY <3>1, <3>2
        <4>2. filter' = [filter EXCEPT ![b] = [filter[b] EXCEPT ![s] = For(Default)]]
          BY <2>1, <2>3, <3>2 DEF UpdateStores, EqTypeOK
        <4> QED
          BY <4>1, <4>2 DEF EqTypeOK
      <3>3. CASE s \notin Channel
        BY <2>1, <2>3, <3>3 DEF UpdateStores, EqTypeOK
      <3> QED
        BY <3>2, <3>3
    <2>7. UNCHANGED <<gain, fader, sync>>
      BY <2>1 DEF UpdateStores
    <2> QED
      BY <2>2, <2>4, <2>5, <2>6, <2>7 DEF EqTypeOK
  <1>4. CASE Renders
    BY <1>4 DEF Renders, EqTypeOK
  <1>5. CASE Equalises
    <2>1. CASE PeriodBegins
      BY <2>1 DEF PeriodBegins, EqTypeOK
    <2>2. CASE SyncCoefficients
      <3>1. sync \in 1..8 /\ sync' = sync + 1
        BY <2>2 DEF SyncCoefficients
      <3>2. PICK b \in Band, c \in Channel, part \in Part :
              b = Target(sync).band /\ c = Target(sync).channel /\ part = Target(sync).part
        BY DEF Target, Band, Channel, Part
      <3>3. PICK v \in Fader : v = coeffs[b][part]
        BY DEF EqTypeOK, Coefficients
      <3>4. filter[b] \in [Channel -> Coefficients] /\ filter[b][c] \in [Part -> Fader]
        BY DEF EqTypeOK, Coefficients
      <3>5. PICK one : one = [filter[b][c] EXCEPT ![part] = v]
        OBVIOUS
      <3>6. one \in Coefficients
        BY <3>4, <3>5 DEF Coefficients
      <3>7. [filter[b] EXCEPT ![c] = one] \in [Channel -> Coefficients]
        BY <3>4, <3>6
      <3>8. filter' = [filter EXCEPT ![b] = [filter[b] EXCEPT ![c] = one]]
        <4>1. filter' = [filter EXCEPT ![b][c][part] = v]
          BY <2>2, <3>2, <3>3 DEF SyncCoefficients, Copied
        <4> QED
          BY <3>5, <4>1
      <3>9. filter' \in [Band -> [Channel -> Coefficients]]
        BY <3>7, <3>8 DEF EqTypeOK
      <3>10. sync' \in 0..9
        BY <3>1
      <3>11. UNCHANGED <<gain, fader, coeffs, enabled, update>>
        BY <2>2 DEF SyncCoefficients
      <3> QED
        BY <3>9, <3>10, <3>11 DEF EqTypeOK
    <2> QED
      BY <1>5, <2>1, <2>2 DEF Equalises, EqStep
  <1> QED
    BY <1>1, <1>2, <1>3, <1>4, <1>5
    DEF SoundNext, soundVars, PlaybackCall, SampleCall, GameWrites

-----------------------------------------------------------------------------
LEMMA PlaybackTypesKept ==
  PlaybackTypes /\ PlaybackInv /\ [SoundNext]_soundVars => PlaybackTypes'
  <1> SUFFICES ASSUME PlaybackTypes, PlaybackInv, [SoundNext]_soundVars PROVE PlaybackTypes'
    OBVIOUS
  <1>1. CASE [Next]_vars
    BY <1>1, TypesStep
  <1>2. CASE OtherCall
    <2>1. calls' \in 0..MaxCalls
      BY <1>2, PlaybackAssumption DEF OtherCall, Call, PlaybackTypes, TypeOK
    <2> QED
      BY <1>2, <2>1 DEF OtherCall, bufferVars, renderVars, streamVars, PlaybackTypes, TypeOK
  <1>3. [Next]_vars \/ OtherCall
    BY DEF SoundNext, soundVars, SampleCall, GameWrites, ToneCall, ToneUpdates, PlaybackCall,
       Renders, Equalises, Next
  <1> QED
    BY <1>1, <1>2, <1>3

SoundInv == PlaybackInv /\ PlaybackTypes /\ SampleInv /\ DataTypes /\ EqTypeOK

LEMMA SoundInvInit == SoundInit => SoundInv
  BY InvInit, TypesInit, SampleInvInit, DataTypesInit, EqTypesInit DEF SoundInit, SoundInv

LEMMA SoundInvKept == SoundInv /\ [SoundNext]_soundVars => SoundInv'
  BY PlaybackInvKept, PlaybackTypesKept, SampleInvKept, DataTypesKept, EqTypesKept DEF SoundInv

LEMMA SoundInvTypes == SoundInv => SoundTypeOK
  BY SampleTypes DEF SoundInv, PlaybackTypes, SoundTypeOK

(* Every variable of a sound, of its samples and of the tone controls keeps *)
(* its type: no frame that is converted comes from outside conv_bytes,      *)
(* however both sizes were rounded.                                         *)
THEOREM SoundTypes == SoundSpec => []SoundTypeOK
  BY SoundInvInit, SoundInvKept, SoundInvTypes, PTL DEF SoundSpec

(* However long the period and the buffer: the loop of snd_stream_render    *)
(* goes round a loop and stops at the end of anything else.                 *)
THEOREM RendersWell == SoundSpec => []RendersRight
  <1>1. SoundTypeOK => RendersRight
    BY LoopIsRight DEF SoundTypeOK
  <1> QED
    BY <1>1, SoundTypes, PTL

(* However far the two conversions of a position round up, the cursor that *)
(* GetCurrentPosition reports before the end is at most one past the last  *)
(* frame, and in the buffer when the rates are the same.                   *)
THEOREM CursorIsBounded == SoundSpec => []CursorBound
  BY CursorSafe, SoundTypes, PTL
=============================================================================
