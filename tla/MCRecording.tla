---------------------------- MODULE MCRecording ----------------------------
EXTENDS Recording

F32(c, r) == [channels |-> c, format |-> "F32", rate |-> r]

\* The asked-for format among others, only others, and none in F32.
MCOffers == { {F32(1, 44), F32(2, 44), F32(2, 48)},
              {F32(1, 48)},
              {[channels |-> 2, format |-> "I16", rate |-> 44]} }
=============================================================================
