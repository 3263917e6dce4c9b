----------------------------- MODULE SabinInput -----------------------------
(***************************************************************************)
(* Buttons of Sabin Sound Star (sabin_io_input.cpp, sabin_io_hooks.cpp):   *)
(* once a millisecond the input thread compares every button with what it  *)
(* last sent, writes a command for each change into the ring the game      *)
(* reads its serial port from, and posts the game a message while there is *)
(* unread data.                                                            *)
(*                                                                         *)
(* A name stands for its characters. Buttons lie on one HID device; the    *)
(* game's reader is outside this repository.                               *)
(***************************************************************************)
EXTENDS Integers, SequencesExt

CONSTANTS
  Buttons,     \* the buttons, in the order of enum SabinButton
  Service,     \* those of which only the press is sent: Tet, Svce, Coin, Bill
  RingSize     \* 0x1000

Button == ToSet(Buttons)
Plain == Button \ Service

Symbol == Button \union {"(", ")", "+", "-"}

ASSUME SabinInputAssumption ==
  /\ Buttons \in Seq(Button) /\ Buttons # <<>>
  /\ Button \intersect {"(", ")", "+", "-"} = {}
  /\ Service \subseteq Button
  /\ RingSize \in Nat \ {0, 1}

VARIABLES
  held,       \* what the buttons are
  seen,       \* deviceSnapshots
  sent,       \* s_prevState
  at,         \* the button the input thread is at, 0 while it sleeps
  sending,    \* what is left of the command it sends
  ring, writePos, readPos,   \* the IOBuffer
  posted,     \* a message 0x0401 waits for the game
  half,       \* the game: the command it has read the start of
  view,       \* the game: the buttons
  owed,       \* history: per service button, presses sent but not counted, until a loss
  lost        \* history: the ring has been full

ringVars == <<ring, writePos, readPos>>
sabinVars == <<held, seen, sent, at, sending, ringVars, posted, half, view, owed, lost>>

Slots == 0..RingSize - 1
Up == [b \in Button |-> FALSE]

SabinTypeOK ==
  /\ {held, seen, sent, view} \subseteq [Button -> BOOLEAN]
  /\ at \in 0..Len(Buttons)
  /\ writePos \in Slots /\ readPos \in Slots
  /\ posted \in BOOLEAN /\ lost \in BOOLEAN
  /\ owed \in [Service -> 0..RingSize]

\* tryInitIOBuffer empties the game's ring.
SabinInit ==
  /\ held = Up /\ seen = Up /\ sent = Up /\ view = Up
  /\ at = 0 /\ sending = <<>>
  /\ ring = [i \in Slots |-> "nul"] /\ writePos = 0 /\ readPos = 0
  /\ posted = FALSE /\ half = <<>>
  /\ owed = [b \in Service |-> 0] /\ lost = FALSE

-----------------------------------------------------------------------------
(* The player *)

ButtonChanges(b) ==
  /\ held' = [held EXCEPT ![b] = ~@]
  /\ UNCHANGED <<seen, sent, at, sending, ringVars, posted, half, view, owed, lost>>

-----------------------------------------------------------------------------
(* inputThread *)

InputThreadWakes ==
  /\ at = 0
  /\ seen' = held
  /\ at' = 1
  /\ UNCHANGED <<held, sent, sending, ringVars, posted, half, view, owed, lost>>

Command(b) ==
  IF b \in Service THEN IF seen[b] THEN <<"(", b, ")">> ELSE <<>>
                   ELSE <<"(", b, IF seen[b] THEN "-" ELSE "+", ")">>

Unread == (writePos + RingSize - readPos) % RingSize

\* Mutant: the ring is allowed to fill up, when its positions are equal.
FullTooLate == Unread = RingSize

Full == Unread = RingSize - 1

\* processButton, up to sendButton ...
ProcessButton ==
  LET b == Buttons[at]
      press == b \in Service /\ seen[b]
  IN  /\ at > 0 /\ sending = <<>> /\ sent[b] # seen[b]
      /\ sent' = [sent EXCEPT ![b] = seen[b]]
      /\ sending' = Command(b)
      /\ owed' = IF press THEN [owed EXCEPT ![b] = @ + 1] ELSE owed
      /\ UNCHANGED <<held, seen, at, ringVars, posted, half, view, lost>>

\* Mutant: the next place is not masked, and runs off the end of the ring.
SendSymbolUnwrapped ==
  /\ sending # <<>>
  /\ IF Full
     THEN sending' = <<>> /\ lost' = TRUE /\ UNCHANGED ringVars
     ELSE /\ ring' = [ring EXCEPT ![writePos] = Head(sending)]
          /\ writePos' = writePos + 1
          /\ sending' = Tail(sending)
          /\ UNCHANGED <<readPos, lost>>
  /\ UNCHANGED <<held, seen, sent, at, posted, half, view, owed>>

\* ... which gives up in the middle of a command when the ring is full.
SendSymbol ==
  /\ sending # <<>>
  /\ IF Full
     THEN sending' = <<>> /\ lost' = TRUE /\ UNCHANGED ringVars
     ELSE /\ ring' = [ring EXCEPT ![writePos] = Head(sending)]
          /\ writePos' = (writePos + 1) % RingSize
          /\ sending' = Tail(sending)
          /\ UNCHANGED <<readPos, lost>>
  /\ UNCHANGED <<held, seen, sent, at, posted, half, view, owed>>

NextButton ==
  /\ at > 0 /\ sending = <<>> /\ sent[Buttons[at]] = seen[Buttons[at]]
  /\ at < Len(Buttons)
  /\ at' = at + 1
  /\ UNCHANGED <<held, seen, sent, sending, ringVars, posted, half, view, owed, lost>>

\* Mutant: the positions are compared as if they never wrapped.
PostUnreadUnwrapped ==
  /\ at = Len(Buttons) /\ sending = <<>> /\ sent[Buttons[at]] = seen[Buttons[at]]
  /\ posted' = (posted \/ writePos > readPos)
  /\ at' = 0
  /\ UNCHANGED <<held, seen, sent, sending, ringVars, half, view, owed, lost>>

\* hasNewData and PostMessage.
PostUnread ==
  /\ at = Len(Buttons) /\ sending = <<>> /\ sent[Buttons[at]] = seen[Buttons[at]]
  /\ posted' = (posted \/ writePos # readPos)
  /\ at' = 0
  /\ UNCHANGED <<held, seen, sent, sending, ringVars, half, view, owed, lost>>

InputThread == InputThreadWakes \/ ProcessButton \/ SendSymbol \/ NextButton \/ PostUnread

-----------------------------------------------------------------------------
(* The game: on a message it reads some of what is there. (What it has     *)
(* read is blanked here, to forget it.)                                    *)

\* What the symbol c makes of the half command, the buttons and the debts.
Hear(s, c) ==
  LET whole == Append(s.half, c)
      b == whole[2]
  IN  IF c = "(" THEN [s EXCEPT !.half = <<c>>]
      ELSE IF s.half = <<>> THEN s
      ELSE IF c # ")" THEN [s EXCEPT !.half = whole]
      ELSE IF Len(whole) = 3 /\ b \in Service
      THEN [half |-> <<>>, view |-> s.view, owed |-> [s.owed EXCEPT ![b] = @ - 1]]
      ELSE IF Len(whole) = 4 /\ b \in Plain
      THEN [half |-> <<>>, view |-> [s.view EXCEPT ![b] = (whole[3] = "-")], owed |-> s.owed]
      ELSE [s EXCEPT !.half = <<>>]

\* What the symbols q, one after another, make of them.
HearAll(s, q) ==
  LET told[i \in 0..Len(q)] == IF i = 0 THEN s ELSE Hear(told[i - 1], q[i])
  IN  told[Len(q)]

Game == [half |-> half, view |-> view, owed |-> owed]

InRing == [i \in 1..Unread |-> ring[(readPos + i - 1) % RingSize]]

GameReadsRing(n) ==
  /\ posted /\ n <= Unread
  /\ LET s == HearAll(Game, SubSeq(InRing, 1, n)) IN
       half' = s.half /\ view' = s.view /\ owed' = s.owed
  /\ readPos' = (readPos + n) % RingSize
  /\ ring' = [i \in Slots |-> IF (i + RingSize - readPos) % RingSize < n THEN "nul" ELSE ring[i]]
  /\ posted' = FALSE
  /\ UNCHANGED <<held, seen, sent, at, sending, writePos, lost>>

SabinGame == \E n \in 1..RingSize - 1 : GameReadsRing(n)

\* Nothing is claimed once the ring has been full, and nothing followed.
SabinNext ==
  (\E b \in Button : ButtonChanges(b)) \/ (~lost /\ (InputThread \/ SabinGame))

-----------------------------------------------------------------------------
(* Unless the ring has been full, the ring and the rest of the command     *)
(* being sent bring the game to exactly what s_prevState says, with every  *)
(* service press counted once: nothing is lost, doubled or out of order,   *)
(* however the two threads meet at the ring (sabin_io_input.cpp:           *)
(* sendButton, processButton).                                             *)
RingTellsAll ==
  LET s == HearAll(Game, InRing \o sending) IN
  ~lost => /\ \A b \in Plain : s.view[b] = sent[b]
           /\ \A b \in Service : s.owed[b] = 0

\* The game sees every button as it is, unless the ring has been full.
ButtonsAgree == ~lost => \A b \in Plain : view[b] = held[b]

=============================================================================
