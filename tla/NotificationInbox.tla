--------------------------- MODULE NotificationInbox ---------------------------
(* The notification rows of the inbox service.  A notification stands for its
   (recipientUserId, idempotencyKey); its row's content is whatever came first. *)
EXTENDS Naturals, FiniteSets

CONSTANTS Notes, Users, OwnerOf    \* notifications, recipients, the recipient of each

VARIABLE inbox                     \* rows that exist, were read, were archived

InboxTypeOK == inbox \in [rows : SUBSET Notes, read : SUBSET Notes, archived : SUBSET Notes]

InboxInit == inbox = [rows |-> {}, read |-> {}, archived |-> {}]

Owned(u) == {n \in Notes : OwnerOf[n] = u}

(* What getUnreadCount counts. *)
Unread(u) == (inbox.rows \cap Owned(u)) \ (inbox.read \cup inbox.archived)

(* notify, notifyMany: createMany with skipDuplicates, then the rows are read back. *)
Notify(ns) == inbox' = [inbox EXCEPT !.rows = @ \cup ns]

(* updateMany where the id, the owner and readAt: null agree; findOwnedOrThrow changes nothing. *)
MarkRead(n, u) ==
    /\ n \in inbox.rows \cap Owned(u)
    /\ inbox' = [inbox EXCEPT !.read = @ \cup {n}]

MarkAllRead(u) == inbox' = [inbox EXCEPT !.read = @ \cup Unread(u)]

Archive(n, u) ==
    /\ n \in inbox.rows \cap Owned(u)
    /\ inbox' = [inbox EXCEPT !.archived = @ \cup {n}]

UserAct(u) == MarkAllRead(u) \/ \E n \in Notes : MarkRead(n, u) \/ Archive(n, u)
================================================================================
