----------------------- MODULE NotificationRepository -----------------------
(***************************************************************************)
(* repository/notification/notification_repository_impl.go: the MongoDB    *)
(* collection "notifications".  Every method is one request to MongoDB and *)
(* takes effect at once.  A document keeps its user, app and group for     *)
(* life (the constant Doc); its message, status text and dates decide      *)
(* nothing.  Arguments are in the trimmed form the methods reduce them to. *)
(***************************************************************************)
CONSTANTS
    Notes,      \* the notifications ever created
    Doc         \* their fields [userId, appId, groupKey]

VARIABLE status \* "unborn", "unread", "read" (readStatus) or "deleted"

StatusTypeOK == status \in [Notes -> {"unborn", "unread", "read", "deleted"}]

StatusInit == status = [n \in Notes |-> "unborn"]

Stored(n) == status[n] \in {"unread", "read"}

\* the filters of the queries
OfUser(u)        == {n \in Notes : Stored(n) /\ Doc[n].userId = u}
OfApp(u, a)      == {n \in OfUser(u) : Doc[n].appId = a}
OfGroup(u, a, g) == {n \in OfApp(u, a) : Doc[n].groupKey = g}

SetReadStatus(S) ==
    status' = [n \in Notes |-> IF n \in S THEN "read" ELSE status[n]]
Remove(S) ==
    status' = [n \in Notes |-> IF n \in S THEN "deleted" ELSE status[n]]

\* (mutant) the filter leaves out the user
FindAllOfEverybody(u) == {n \in Notes : status[n] = "unread"}

FindAll(u) == {n \in OfUser(u) : status[n] = "unread"}

Create(n) == status[n] = "unborn" /\ status' = [status EXCEPT ![n] = "unread"]

MarkAsRead(u)            == SetReadStatus(OfUser(u))
MarkAppAsRead(u, a)      == SetReadStatus(OfApp(u, a))
MarkGroupAsRead(u, a, g) == SetReadStatus(OfGroup(u, a, g))

\* UpdateByID: the filter names the document only, whoever its user is
MarkNotificationAsRead(u, n) == SetReadStatus({n} \intersect {m \in Notes : Stored(m)})

DeleteNotifications(u)             == Remove(OfUser(u))
DeleteAppNotifications(u, a)       == Remove(OfApp(u, a))
DeleteGroupNotifications(u, a, g)  == Remove(OfGroup(u, a, g))
DeleteNotification(u, n)           == Remove({n} \intersect OfUser(u))
=============================================================================
