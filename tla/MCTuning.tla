------------------------------ MODULE MCTuning ------------------------------
(* The unit is 50 Hz, so that all edges of the bands are integers; words of  *)
(* 13 and 15 bits, with frequencies at their ends: at zero the VFO wraps     *)
(* around.  The steps bring a band right to the edges.                       *)
EXTENDS Tuning
BandMC == [am |-> [low |-> -90, high |-> 90],
           b200 |-> [low |-> -2, high |-> 2], b500 |-> [low |-> -5, high |-> 5],
           b1000 |-> [low |-> -10, high |-> 10],
           b1500 |-> [low |-> -15, high |-> 15],
           b2000 |-> [low |-> -20, high |-> 20],
           b4000 |-> [low |-> 0, high |-> 60], fax |-> [low |-> -30, high |-> 30],
           usb |-> [low |-> 0, high |-> 50], lsb |-> [low |-> -50, high |-> 0],
           wide |-> [low |-> -110, high |-> 110]]
FrequenciesMC == {0, 2000, 4090, 9000}
StepsMC == {-1343, -960, 7, 383}
=============================================================================
