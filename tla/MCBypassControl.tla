--------------------------- MODULE MCBypassControl ---------------------------
(* Small instances of BypassControl; the cfg files choose among these sets.  *)
EXTENDS BypassControl

\* sums of five samples: below and above the default threshold of 5 * 955,
\* and a module on a 5 V programmer
AllVoltages == {4600, 4850, 5000}
DefaultThreshold == {4775}
RaisedLevels == {0, 4700, 4900}

\* around the default setpoint of 850: full power below 790, PID control,
\* forced shut down above 880, and the safety cut-off at 940
HotTemperatures == {700, 850, 900, 945}
DefaultSetpoint == {850}
=============================================================================
