------------------------ MODULE ConfigurationService ------------------------
(***************************************************************************)
(* services/configuration/configuration_service_impl.go: as in             *)
(* NotificationService, the repository's results and errors are handed on. *)
(* FindByAppAndUser returns the same error for a user without a document   *)
(* and for a failed request.                                               *)
(***************************************************************************)
EXTENDS Parties

VARIABLE config

ConfigRepo == INSTANCE ConfigurationRepository

\* the results the call can have: a flag, or "error"
FindByAppAndUser(u) ==
    {IF ConfigRepo!FindByAppAndUser(u) = "none"
       THEN "error" ELSE ConfigRepo!FindByAppAndUser(u)} \union
    (IF MongoFails THEN {"error"} ELSE {})

CreateConfiguration(u, f, err) ==
    \/ ~err /\ ConfigRepo!CreateConfiguration(u, f)
    \/ err /\ MongoFails /\ (ConfigRepo!CreateConfiguration(u, f) \/ UNCHANGED config)

UpdateConfiguration(u, f) ==
    \/ ConfigRepo!UpdateConfiguration(u, f)
    \/ MongoFails /\ UNCHANGED config
=============================================================================
