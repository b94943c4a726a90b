------------------------ MODULE MCResamplingAdapter ------------------------
EXTENDS ResamplingAdapter

\* Up and down, whole and fractional ratios, the steepest one resample_in is made for
\* (16 for two channels) and two beyond it.
MCRates == { <<1, 2>>, <<2, 3>>, <<3, 2>>, <<7, 5>>, <<2, 1>>, <<16, 1>>, <<17, 1>>, <<25, 1>> }
=============================================================================
