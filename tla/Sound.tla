------------------------------- MODULE Sound --------------------------------
(***************************************************************************)
(* One sound with its samples, and the tone controls behind the mixer.     *)
(* The game's one thread makes all the calls.  The tone controls share     *)
(* nothing with a sound but the render thread, which filters what it has   *)
(* mixed before it takes in more commands: a behaviour is about either.    *)
(***************************************************************************)
EXTENDS Playback, SampleBuffers, AudioEq

CONSTANTS
  MaxTurns,   \* bound: turns of a control
  MaxFills    \* bound: calls of a game that fills the sound as well

VARIABLE topic    \* what the game does: plays, plays and fills, or turns controls

soundVars == <<vars, sampleVars, eqVars, topic>>

(* Whatever the game creates comes to the same number of samples, two to a *)
(* frame of the system's format, so that one Length stands for all.        *)
ASSUME SoundAssumption == \A s \in Sounds : Length = 2 * SystemFrames(s)

\* A call that is neither Play nor one of its like; no other is under way.
OtherCall ==
  /\ Call /\ update = <<>>
  /\ UNCHANGED <<bufferVars, game, intake, renderVars, streamVars, last>>

SampleCall ==
  /\ topic = "samples"
  /\ calls < MaxFills
  /\ OtherCall
  /\ \E h \in Interface :
       \/ Duplicate(h)
       \/ ReleaseDuplicate(h)
       \/ \E p \in 0..sound.frames, n \in 1..(sound.frames + 1), two \in BOOLEAN :
            Lock(h, p, n, two)
       \/ LockFails(h)
       \/ Unlock(h)
  /\ UNCHANGED <<eqVars, topic>>

\* The game writes; the render thread may be reading.
GameWrites ==
  /\ game = "idle"
  /\ \E h \in Interface, d \in Datum \ {Silence} : Write(h, d)
  /\ UNCHANGED <<vars, eqVars, topic>>

ToneCall ==
  /\ topic = "tone"
  /\ calls < MaxTurns
  /\ OtherCall
  /\ \E b \in Band, v \in Fader : SetControl(b, v)
  /\ UNCHANGED <<sampleVars, topic>>

ToneUpdates == UpdateStores /\ UNCHANGED <<vars, sampleVars, topic>>

PlaybackCall ==
  /\ \/ topic = "playback" /\ GameStep
     \/ topic = "samples" /\ calls < MaxFills /\ GameStep
     \/ StatusReturns
  /\ UNCHANGED <<sampleVars, eqVars, topic>>

\* The render thread, as in Playback, between two periods of the filters ...
Renders ==
  /\ render = "wait" => EqDone
  /\ RenderStep
  /\ sync' = 0
  /\ UNCHANGED <<sampleVars, gain, fader, coeffs, enabled, filter, update, topic>>

\* ... which come after mixing.
Equalises ==
  /\ render = "wait"
  /\ EqStep
  /\ UNCHANGED <<vars, sampleVars, topic>>

\* The gain matters only to the tone controls, the format only to the samples.
SoundInit ==
  /\ Init /\ SampleInit /\ EqInit
  /\ \/ topic = "playback" /\ gain /\ ~RequiresConversion
     \/ topic = "samples" /\ gain
     \/ topic = "tone" /\ ~RequiresConversion

SoundNext ==
  \/ PlaybackCall \/ SampleCall \/ GameWrites \/ ToneCall \/ ToneUpdates
  \/ Renders \/ Equalises

\* The audio device keeps asking for buffers, and a call of the game returns.
SoundSpec ==
  /\ SoundInit /\ [][SoundNext]_soundVars
  /\ WF_soundVars(Renders \/ Equalises)
  /\ WF_soundVars(ToneUpdates)

SoundTypeOK == TypeOK /\ SampleTypeOK /\ EqTypeOK

-----------------------------------------------------------------------------
\* Mutant: snd_stream_peek_position counts samples instead of frames.
CursorInSamples == DestFrames(pos, System.rate, sound.rate)

\* GetCurrentPosition: the play cursor, in frames of the buffer's format.
Cursor == DestFrames(pos \div 2, System.rate, sound.rate)

(* While a sound has something left to render its play cursor is in the    *)
(* buffer when the game's rate is the system's. At any other rate both     *)
(* conversions of a position, of the sound's size and of the cursor, round *)
(* up, and the cursor may be one frame past the last, never more           *)
(* (ds-buffer.c: ds_buffer_get_current_position; converter.c).             *)
CursorBound ==
  pos < Length => IF sound.rate = System.rate THEN Cursor < sound.frames
                                              ELSE Cursor <= sound.frames

(* A play cursor is the place of a frame in the buffer: a Lock takes one   *)
(* that is not for out of bounds (ds-buffer.c:628). The rounding up is     *)
(* there for "calculating a buffer size" (converter.c:66).                 *)
CursorInBuffer == pos < Length => Cursor < sound.frames
=============================================================================
