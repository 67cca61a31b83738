---------------------------- MODULE MCBusLifecycle ----------------------------
(* Instances of BusLifecycle: two lines, the most load_config accepts       *)
(* (config.py, MAX_BUSES), and one line for the temporal properties.        *)
EXTENDS BusLifecycle

CONSTANTS b1, b2   \* model values: the lines

\* The order in which startup and the watchdog visit the lines.
TwoLines == <<b1, b2>>
OneLine == <<b1>>
=============================================================================
