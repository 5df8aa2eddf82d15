--------------------------- MODULE MCCommandLoop ---------------------------
EXTENDS CommandLoop
CONSTANTS Refusals, Breaks, Slows, LedFaults, Repeats, Kills

AllFaults == [refuse |-> Refusals, break |-> Breaks, slow |-> Slows,
              led |-> LedFaults, again |-> Repeats, kill |-> Kills]
=============================================================================
