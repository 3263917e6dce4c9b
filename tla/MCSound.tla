------------------------------ MODULE MCSound -------------------------------
EXTENDS Sound

\* Three frames of the system's format, however the game describes them: in
\* the format itself, in a slower and narrower one, and in a faster one.
MCSystem == [rate |-> 3, width |-> 4]
MCSounds == {[rate |-> 3, width |-> 4, frames |-> 3],
             [rate |-> 2, width |-> 1, frames |-> 2],
             [rate |-> 4, width |-> 4, frames |-> 3]}
=============================================================================
