------------------------ MODULE NotificationService ------------------------
(***************************************************************************)
(* services/notification/notification_service_impl.go: every method hands  *)
(* its call on to the repository and its error back to the caller.  A      *)
(* request that returns an error may or may not have taken effect.  The    *)
(* callers of the mark and delete methods act alike on success and error,  *)
(* so for these a failure is told apart by its effect alone; FindAll and   *)
(* Create also return which of the two it was.                             *)
(***************************************************************************)
EXTENDS Parties

CONSTANTS Notes, Doc

VARIABLE status

Repo == INSTANCE NotificationRepository

RequestFails == MongoFails /\ UNCHANGED status

\* the results the call can have
FindAll(u) ==
    {[err |-> FALSE, notes |-> Repo!FindAll(u)]} \union
    (IF MongoFails THEN {[err |-> TRUE, notes |-> {}]} ELSE {})

Create(n, err) ==
    \/ ~err /\ Repo!Create(n)
    \/ err /\ MongoFails /\ (Repo!Create(n) \/ UNCHANGED status)

MarkAsRead(u)                 == Repo!MarkAsRead(u) \/ RequestFails
MarkAppAsRead(u, a)           == Repo!MarkAppAsRead(u, a) \/ RequestFails
MarkGroupAsRead(u, a, g)      == Repo!MarkGroupAsRead(u, a, g) \/ RequestFails
MarkNotificationAsRead(u, n)  == Repo!MarkNotificationAsRead(u, n) \/ RequestFails

DeleteNotifications(u)            == Repo!DeleteNotifications(u) \/ RequestFails
DeleteAppNotifications(u, a)      == Repo!DeleteAppNotifications(u, a) \/ RequestFails
DeleteGroupNotifications(u, a, g) == Repo!DeleteGroupNotifications(u, a, g) \/ RequestFails
DeleteNotification(u, n)          == Repo!DeleteNotification(u, n) \/ RequestFails

Unread(u) == Repo!FindAll(u)
=============================================================================
