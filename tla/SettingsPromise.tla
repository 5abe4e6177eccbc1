-------------------------- MODULE SettingsPromise --------------------------
(***************************************************************************)
(* The configuration the processes run with, and what its editor promises: *)
(* MCAccess checks it on an instance, and MailOutboxProofs proves it.      *)
(***************************************************************************)
CONSTANTS
  Processes, Editors, MaxRevision, MaxMishaps,
  Unset        \* a null column
VARIABLES row, process, form, saving, misjudged, mishap

Settings == INSTANCE RuntimeConfiguration WITH None <- Unset

(* Whoever replaces the configuration has seen what they replace, what is
   stored can be loaded, and every process takes it over
   (updateRuntimeConfiguration).                                            *)
ConfigurationSound ==
  Settings!NothingOverwritten /\ [](Settings!StoredLoads /\ Settings!QuietMeansTaken)
=============================================================================
