------------------------------ MODULE AudioEq -------------------------------
(***************************************************************************)
(* The tone controls: the mixer the DLL pretends to be (mixer_hook.cpp)    *)
(* and the filters its settings end up in (eq_processor.c).  The game's    *)
(* thread computes coefficients, the audio thread copies them at the start *)
(* of every period; nothing but the order of their stores is between them. *)
(* A filter's coefficients come in two parts, its numerator and its        *)
(* denominator; what they do to the samples is left out.                   *)
(***************************************************************************)
EXTENDS Naturals, Sequences

CONSTANTS
  Fader,        \* values the game sets
  Default       \* the one that leaves the sound as it is

ASSUME EqAssumption == Default \in Fader

Band == {"bass", "treble"}
Channel == {"left", "right"}
Part == {"numerator", "denominator"}

VARIABLES
  gain,       \* is g_gainMultiplier above zero?
  fader,      \* g_bassValue, g_trebleValue
  coeffs,     \* g_bassCoeffs, g_trebleCoeffs, by the value they were computed for
  enabled,    \* g_bassEnabled, g_trebleEnabled
  filter,     \* g_bassL, g_bassR, g_trebleL, g_trebleR
  update,     \* what EqProcessor_updateBass or -Treble has still to store
  sync        \* the audio thread: this period's copies not begun, or the next one

eqVars == <<gain, fader, coeffs, enabled, filter, update, sync>>

Coefficients == [Part -> Fader]

For(v) == [part \in Part |-> v]

EqTypeOK ==
  /\ gain \in BOOLEAN
  /\ fader \in [Band -> Fader]
  /\ coeffs \in [Band -> Coefficients]
  /\ enabled \in [Band -> BOOLEAN]
  /\ filter \in [Band -> [Channel -> Coefficients]]
  /\ update \in Seq([band : Band, store : Part \union Channel \union {"on", "off"}])
  /\ sync \in 0..9

\* EqProcessor_init
EqInit ==
  /\ gain \in BOOLEAN
  /\ fader = [b \in Band |-> Default]
  /\ coeffs = [b \in Band |-> For(Default)]
  /\ enabled = [b \in Band |-> FALSE]
  /\ filter = [b \in Band |-> [c \in Channel |-> For(Default)]]
  /\ update = <<>> /\ sync = 0

-----------------------------------------------------------------------------
(* The game's thread. *)

\* mapBassToDb, mapTrebleToDb: is the result 0 dB?
Flat(v) == v = Default \/ ~gain

\* EqProcessor_updateBass, EqProcessor_updateTreble: a flat band is switched off
\* and its filters reset, any other is computed and switched on.
Stores(v) ==
  IF Flat(v) THEN <<"off", "left", "right">> ELSE <<"numerator", "denominator", "on">>

\* mixerSetControlDetails of one of the controls the DLL pretends to have.
SetControl(b, v) ==
  /\ update = <<>>
  /\ fader' = [fader EXCEPT ![b] = v]
  /\ update' = [i \in DOMAIN Stores(v) |-> [band |-> b, store |-> Stores(v)[i]]]
  /\ UNCHANGED <<gain, coeffs, enabled, filter, sync>>

UpdateStores ==
  /\ update # <<>>
  /\ update' = Tail(update)
  /\ LET b == Head(update).band
         s == Head(update).store
     IN  /\ coeffs' = IF s \in Part THEN [coeffs EXCEPT ![b][s] = fader[b]] ELSE coeffs
         /\ enabled' = IF s \in {"on", "off"} THEN [enabled EXCEPT ![b] = (s = "on")]
                                              ELSE enabled
         /\ filter' = IF s \in Channel THEN [filter EXCEPT ![b][s] = For(Default)] ELSE filter
  /\ UNCHANGED <<gain, fader, sync>>

-----------------------------------------------------------------------------
(* The audio thread, once a period. *)

NothingToDo == \A b \in Band : ~enabled[b]

\* EqProcessor_processInt16Stereo copies all coefficients if either band is on.
PeriodBegins ==
  /\ sync = 0 /\ ~NothingToDo
  /\ sync' = 1
  /\ UNCHANGED <<gain, fader, coeffs, enabled, filter, update>>

\* The i-th store of syncCoefficients.
Target(i) ==
  [band    |-> IF i <= 4 THEN "bass" ELSE "treble",
   channel |-> IF i % 4 \in {1, 2} THEN "left" ELSE "right",
   part    |-> IF i % 2 = 1 THEN "numerator" ELSE "denominator"]

\* Mutant: the treble's right filter is given the bass coefficients.
CopiedFrom(k) == IF k.channel = "left" THEN coeffs[k.band][k.part]
                                       ELSE coeffs["bass"][k.part]

\* biquad_copyCoeffs
Copied(k) == coeffs[k.band][k.part]

SyncCoefficients ==
  /\ sync \in 1..8
  /\ LET k == Target(sync)
     IN  filter' = [filter EXCEPT ![k.band][k.channel][k.part] = Copied(k)]
  /\ sync' = sync + 1
  /\ UNCHANGED <<gain, fader, coeffs, enabled, update>>

\* The frames are filtered: the period is over.
EqDone == sync = 9 \/ (sync = 0 /\ NothingToDo)

EqStep == PeriodBegins \/ SyncCoefficients

-----------------------------------------------------------------------------
(* However the stores of the two threads fall, both channels end up with   *)
(* the whole coefficients of the game's last setting of a band, and a band *)
(* set flat ends up off: a copy that was torn, or a filter reset in the    *)
(* middle of one, is made good by the next period.                         *)
EqSettles ==
  <>[]\A b \in Band :
        /\ enabled[b] = ~Flat(fader[b])
        /\ enabled[b] => \A c \in Channel : filter[b][c] = For(fader[b])
=============================================================================
