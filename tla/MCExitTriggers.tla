---------------------------- MODULE MCExitTriggers ----------------------------
\* Shifts for the model checker: beyond the threshold of the unwind, both ways.
EXTENDS ExitTriggers

MCShifts == {-100, 60}
===============================================================================
