--------------------------- MODULE MCNegotiation ---------------------------
EXTENDS Negotiation

Range(channels, format, low, high) ==
  [channels |-> channels, format |-> format, low |-> low, high |-> high]
F32(channels, low, high) == Range(channels, "F32", low, high)
I16(channels, low, high) == Range(channels, "I16", low, high)

\* Not there; one or two stereo rates; a stereo range around the rates of all runtimes,
\* beside mono; ranges that end at and above a runtime's rate; mono at such a rate;
\* integers where a runtime's rate is, or nothing but integers.
MCOffers == { {},
              {F32(2, 44, 44)},
              {F32(2, 44, 44), F32(2, 48, 48)},
              {F32(1, 44, 44), F32(2, 40, 96)},
              {F32(2, 22, 46), F32(2, 47, 60)},
              {F32(1, 46, 46), F32(1, 48, 48)},
              {F32(2, 96, 96), I16(2, 44, 44)},
              {I16(2, 44, 48)} }
=============================================================================
