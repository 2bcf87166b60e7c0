---------------------- MODULE ConfigurationRepository ----------------------
(***************************************************************************)
(* repository/configuration/configuration_repository_impl.go: the MongoDB  *)
(* collection "configurations", one request per method.  FindOne, and the  *)
(* UpdateOne of Update, take the first document that names the user, so    *)
(* the model keeps the flag of that document; a second document inserted   *)
(* for the same user is never read.                                        *)
(***************************************************************************)
EXTENDS Parties

VARIABLE config \* the flag of the user's first document, or "none"

ConfigTypeOK == config \in [Users -> Flags \union {"none"}]

ConfigInit == config = [u \in Users |-> "none"]

FindByAppAndUser(u) == config[u]

CreateConfiguration(u, f) ==
    config' = [config EXCEPT ![u] = IF @ = "none" THEN f ELSE @]

\* no document: the error is logged by the caller and nothing is updated
UpdateConfiguration(u, f) ==
    config' = [config EXCEPT ![u] = IF @ = "none" THEN @ ELSE f]
=============================================================================
