----------------------- MODULE MCServiceCompletions -----------------------
EXTENDS ServiceCompletions, TLC

CONSTANTS a, b, p, q

\* Processes are interchangeable in runs without a temporal property.
Processes == Permutations(Clients)
===========================================================================
