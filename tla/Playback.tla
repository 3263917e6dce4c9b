------------------------------ MODULE Playback ------------------------------
(***************************************************************************)
(* Playing one sound: what the game's thread believes of it (ds-buffer.c)  *)
(* and what the render thread does with it (snd-service.c, snd-mixer.c,    *)
(* snd-stream.c).                                                          *)
(*                                                                         *)
(* The game's calls send commands through the FIFO of CommandChannel; the  *)
(* position and the stream's looping flag are atomics that both threads    *)
(* use directly.  Positions are counted in pieces of a buffer, of which    *)
(* every period of the audio device takes Period.                          *)
(***************************************************************************)
EXTENDS Naturals, Sequences

CONSTANTS
  Length,    \* snd_buffer_nsamples
  Period,    \* the mixer's nsamples
  MaxCalls   \* bound: calls the game makes

ASSUME PlaybackAssumption ==
  Length \in Nat \ {0} /\ Period \in Nat \ {0} /\ MaxCalls \in Nat

VARIABLES
  playing, looping,   \* ds_buffer.playing and .looping
  game,      \* the game's thread: between calls, or in GetStatus
  intake,    \* commands posted
  chamber,   \* commands of this batch not executed yet
  render,    \* the render thread
  inserted,  \* is the stream in the mixer's list?
  loops,     \* snd_stream.looping
  pos,       \* snd_stream.pos
  at,        \* the pos of snd_stream_render
  last,      \* history: the last command posted
  calls      \* history: calls made

bufferVars == <<playing, looping>>
streamVars == <<inserted, loops, pos>>
renderVars == <<chamber, render, at>>
vars == <<bufferVars, game, intake, renderVars, streamVars, last, calls>>

Command == {"STOP", "ONCE", "LOOP"}

TypeOK ==
  /\ playing \in BOOLEAN /\ looping \in BOOLEAN
  /\ game \in {"idle", "status"}
  /\ intake \in Seq(Command) /\ chamber \in Seq(Command)
  /\ render \in {"wait", "execute", "rewind", "mix"}
  /\ inserted \in BOOLEAN /\ loops \in BOOLEAN
  /\ pos \in 0..Length /\ at \in 0..(Length - 1)
  /\ last \in Command \union {"none"}
  /\ calls \in 0..MaxCalls

Init ==
  /\ playing = FALSE /\ looping = FALSE /\ game = "idle"
  /\ intake = <<>> /\ chamber = <<>> /\ render = "wait"
  /\ inserted = FALSE /\ loops = FALSE /\ pos = 0 /\ at = 0
  /\ last = "none" /\ calls = 0

-----------------------------------------------------------------------------
(* The game's thread. *)

Call == game = "idle" /\ calls < MaxCalls /\ calls' = calls + 1

Post(cmd) == intake' = Append(intake, cmd) /\ last' = cmd

\* A buffer that is playing only notes the new flag; the command allocated for
\* it is dropped.
Play(loop) ==
  /\ Call
  /\ looping' = loop
  /\ playing' = TRUE
  /\ IF playing THEN UNCHANGED <<intake, last>>
                ELSE Post(IF loop THEN "LOOP" ELSE "ONCE")
  /\ UNCHANGED <<game, renderVars, streamVars>>

\* Mutant: a buffer believed silent is not told to stop.
StopIfPlaying ==
  /\ Call
  /\ IF playing THEN Post("STOP") ELSE last' = "STOP" /\ UNCHANGED intake
  /\ playing' = FALSE /\ looping' = FALSE
  /\ UNCHANGED <<game, renderVars, streamVars>>

Stop ==
  /\ Call
  /\ Post("STOP")
  /\ playing' = FALSE /\ looping' = FALSE
  /\ UNCHANGED <<game, renderVars, streamVars>>

\* SetCurrentPosition(0); any other position is ignored.
SetCurrentPosition ==
  /\ Call
  /\ pos' = 0
  /\ UNCHANGED <<bufferVars, game, intake, renderVars, inserted, loops, last>>

\* GetStatus of a playing buffer: is the stream finished?  First its looping
\* flag; one that loops is not.
GetStatus ==
  /\ Call
  /\ playing
  /\ game' = IF loops THEN "idle" ELSE "status"
  /\ UNCHANGED <<bufferVars, intake, renderVars, streamVars, last>>

\* Then its position.
StatusReturns ==
  /\ game = "status"
  /\ game' = "idle"
  /\ playing' = (pos < Length)
  /\ UNCHANGED <<looping, intake, renderVars, streamVars, last, calls>>

-----------------------------------------------------------------------------
(* The render thread. *)

ServiceIntake ==
  /\ render = "wait"
  /\ render' = "execute"
  /\ chamber' = intake /\ intake' = <<>>
  /\ UNCHANGED <<bufferVars, game, streamVars, at, last, calls>>

\* Mutant: a stream that is already in the list is left as it is.
ExecutePlayOnce ==
  /\ render = "execute" /\ chamber # <<>> /\ Head(chamber) \in {"ONCE", "LOOP"}
  /\ IF inserted THEN render' = render /\ chamber' = Tail(chamber) /\ UNCHANGED loops
                 ELSE /\ loops' = (Head(chamber) = "LOOP")
                      /\ render' = "rewind" /\ UNCHANGED chamber
  /\ UNCHANGED <<bufferVars, game, intake, inserted, pos, at, last, calls>>

\* PLAY: the looping flag first ...
ExecutePlay ==
  /\ render = "execute" /\ chamber # <<>> /\ Head(chamber) \in {"ONCE", "LOOP"}
  /\ loops' = (Head(chamber) = "LOOP")
  /\ render' = "rewind"
  /\ UNCHANGED <<bufferVars, game, intake, chamber, inserted, pos, at, last, calls>>

\* Mutant: a sound is not rewound.
MixerPlayFromHere ==
  /\ render = "rewind"
  /\ inserted' = TRUE
  /\ render' = "execute" /\ chamber' = Tail(chamber)
  /\ UNCHANGED <<bufferVars, game, intake, loops, pos, at, last, calls>>

\* ... then snd_mixer_play.
MixerPlay ==
  /\ render = "rewind"
  /\ pos' = 0 /\ inserted' = TRUE
  /\ render' = "execute" /\ chamber' = Tail(chamber)
  /\ UNCHANGED <<bufferVars, game, intake, loops, at, last, calls>>

ExecuteStop ==
  /\ render = "execute" /\ chamber # <<>> /\ Head(chamber) = "STOP"
  /\ inserted' = FALSE
  /\ chamber' = Tail(chamber)
  /\ UNCHANGED <<bufferVars, game, intake, render, loops, pos, at, last, calls>>

\* snd_mixer_mix: snd_stream_render works on a copy of the position ...
MixBegins ==
  /\ render = "execute" /\ chamber = <<>>
  /\ IF inserted THEN at' = pos /\ render' = "mix"
                 ELSE render' = "wait" /\ UNCHANGED at
  /\ UNCHANGED <<bufferVars, game, intake, chamber, streamVars, last, calls>>

\* Mutant: the last part of a sound is not cut to what is left of it.
RenderedUncut(n, again, from, dest) ==
  IF again THEN (from + dest) % n ELSE from + dest

\* Mutant: a loop that ends exactly with the period does not go back.
RenderedUnwrapped(n, again, from, dest) ==
  LET f[x \in (0..n) \X (0..dest)] ==
        LET p    == x[1]
            d    == x[2]
            end  == IF p + d > n THEN n ELSE p + d
            left == IF p + d > n THEN d - (n - p) ELSE 0
        IN  IF left = 0 \/ ~again THEN end ELSE f[<<IF end >= n THEN 0 ELSE end, left>>]
  IN  f[<<from, dest>>]

\* The position after dest samples of a buffer of n: the loop of
\* snd_stream_render, which goes round as often as the period needs.
Rendered(n, again, from, dest) ==
  LET f[x \in (0..n) \X (0..dest)] ==
        LET p    == x[1]
            d    == x[2]
            end  == IF p + d > n THEN n ELSE p + d
            left == IF p + d > n THEN d - (n - p) ELSE 0
            next == IF end >= n /\ again THEN 0 ELSE end
        IN  IF left = 0 \/ ~again THEN next ELSE f[<<next, left>>]
  IN  f[<<from, dest>>]

\* ... and stores it when it is done.  A stream at its end leaves the list.
MixEnds ==
  /\ render = "mix"
  /\ pos' = Rendered(Length, loops, at, Period)
  /\ inserted' = (pos' < Length)
  /\ at' = 0
  /\ render' = "wait"
  /\ UNCHANGED <<bufferVars, game, intake, chamber, loops, last, calls>>

-----------------------------------------------------------------------------
GameStep ==
  \/ \E loop \in BOOLEAN : Play(loop)
  \/ Stop \/ SetCurrentPosition \/ GetStatus

RenderStep ==
  ServiceIntake \/ ExecutePlay \/ MixerPlay \/ ExecuteStop \/ MixBegins \/ MixEnds

Next == GameStep \/ StatusReturns \/ RenderStep

Spec == Init /\ [][Next]_vars

\* The audio device keeps asking for buffers.
FairSpec == Spec /\ WF_vars(RenderStep)

-----------------------------------------------------------------------------
InFlight == chamber \o intake

(* What is in flight or has been executed last is what the game asked for  *)
(* last: once nothing is in flight a stopped sound is silent, and one that *)
(* sounds goes round only if it was to.                                    *)
StreamFollowsCommands ==
  IF InFlight # <<>>
  THEN InFlight[Len(InFlight)] = last
  ELSE inserted => last \in {"ONCE", "LOOP"} /\ loops = (last = "LOOP")

(* A buffer that takes itself for playing has asked to be, since it last   *)
(* asked to stop: only then may Play send nothing.                         *)
PlayingWasAsked == playing => last \in {"ONCE", "LOOP"}

(* Every PLAY posted is heard, from the start, unless the game stops it.   *)
PlayIsHeard ==
  (InFlight # <<>> /\ last \in {"ONCE", "LOOP"})
     ~> (last = "STOP" \/ (render = "mix" /\ at = 0))

(* When the game says no more, the sound ends up as its last command says: *)
(* going round for ever, or silent.  A rewind alone wakes nothing.         *)
SettlesOnLastCommand ==
  /\ <>[](last = "LOOP") => <>[]inserted
  /\ <>[](last # "LOOP") => <>[]~inserted

(* The renderer's loop, for buffers shorter and longer than a period: a    *)
(* loop advances modulo its length, a single play stops at its end.        *)
RendersRight ==
  \A n \in 1..5 : \A d \in 1..12 : \A p \in 0..(n - 1) :
    Rendered(n, loops, p, d) =
      IF loops THEN (p + d) % n ELSE IF p + d > n THEN n ELSE p + d

(* ds-buffer.c:502, "Make sure self->playing is up to date": when          *)
(* GetStatus has looked, the buffer is playing exactly if the sound is in  *)
(* the mixer or about to be.                                               *)
Sounding == IF InFlight # <<>> THEN last # "STOP" ELSE inserted

StatusIsUpToDate == [][game = "status" /\ game' = "idle" => playing' = Sounding]_vars
=============================================================================
