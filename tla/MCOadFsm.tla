------------------------------ MODULE MCOadFsm ------------------------------
(***************************************************************************)
(* Instances of OadFsm for TLC.  As in the scan's state diagram, the full   *)
(* scan is started by the service itself, never from outside.              *)
(***************************************************************************)
EXTENDS OadFsm

FromOutside == Events \ {"FrequencyScanStart"}

\* For MCOadPreferred.cfg, which looks at the preferred scan alone.
PreferredOnly == PreferredEvents

\* For MCOadFrequency.cfg: what leads to a locked stream of the frequency list.
UntilLocked == {"PrefferedScanStart", "PrefferedScanNextTs", "FrequencyScanTsLocked"}
=============================================================================
