------------------------------- MODULE Notify -------------------------------
(***************************************************************************)
(* src/sync/notify.rs: a Notifier that broadcasts one notification to its  *)
(* Subscriptions and collects their acknowledgements.                      *)
(*                                                                         *)
(* Two tokio channels carry it, and both are external code, modelled by    *)
(* what notify.rs relies on.  The broadcast channel (capacity 1) keeps one *)
(* unread flag per receiver; send reaches the receivers that exist at that *)
(* moment, returns their number and is an error when there is none.  The   *)
(* mpsc channel holds AckCapacity acknowledgements; a sender waits while   *)
(* it is full, and recv returns None once it is empty and every sender has *)
(* been dropped.                                                           *)
(*                                                                         *)
(* A Subscription is identified with the task that owns it.  The module    *)
(* has no next-state relation of its own: Server composes these steps with *)
(* the steps of the server and of its connection tasks.                    *)
(***************************************************************************)
EXTENDS Naturals, FiniteSets

CONSTANT Tasks          \* the tasks that may hold a Subscription

VARIABLES
  subs,         \* tasks that hold a live Subscription
  unread,       \* subscribers whose broadcast receiver holds a notification
  acks,         \* acknowledgements in the mpsc channel
  notifier      \* "idle", "collecting" or "dropped"

AckCapacity == 1        \* mpsc::channel(1)

NotifyTypeOK ==
  /\ subs \subseteq Tasks
  /\ unread \subseteq subs
  /\ acks \in 0..AckCapacity
  /\ notifier \in {"idle", "collecting", "dropped"}

\* Notifier::new
NotifyInit ==
  /\ subs = {}
  /\ unread = {}
  /\ acks = 0
  /\ notifier = "idle"

\* Notifier::subscribe: a receiver created now sees only later notifications.
Subscribe(t) ==
  /\ subs' = subs \cup {t}
  /\ UNCHANGED <<unread, acks, notifier>>

\* Mutant: the receiver outlives its Subscription.
UnsubscribeMutant(t) ==
  /\ subs' = subs \ {t}
  /\ UNCHANGED <<unread, acks, notifier>>

\* Dropping a Subscription drops its receiver and its ack sender.
Unsubscribe(t) ==
  /\ subs' = subs \ {t}
  /\ unread' = unread \ {t}
  /\ UNCHANGED <<acks, notifier>>

\* Notifier::send returned Ok, and collect_acknowledgements starts: it drops
\* the notifier's own ack sender before it waits.
SendAndCollect ==
  /\ subs # {}
  /\ unread' = subs
  /\ notifier' = "collecting"
  /\ UNCHANGED <<subs, acks>>

\* Mutant: send waits for a subscriber.
SendFailsMutant == FALSE /\ UNCHANGED <<subs, unread, acks, notifier>>

\* Notifier::send returned Err: nobody is subscribed.
SendFails ==
  /\ subs = {}
  /\ UNCHANGED <<subs, unread, acks, notifier>>

\* Subscription::receive_notification: try_recv, which never waits.
ReceiveNotification(t) ==
  /\ unread' = unread \ {t}
  /\ UNCHANGED <<subs, acks, notifier>>

\* Subscription::acknowledge_notification: waits while the channel is full.
AcknowledgeNotification ==
  /\ acks < AckCapacity
  /\ acks' = acks + 1
  /\ UNCHANGED <<subs, unread, notifier>>

\* Mutant: acknowledgements are never taken out of the channel.
CollectAckMutant ==
  FALSE /\ UNCHANGED <<subs, unread, acks, notifier>>

\* collect_acknowledgements: recv returned Some(ack).
CollectAck ==
  /\ notifier = "collecting"
  /\ acks > 0
  /\ acks' = acks - 1
  /\ UNCHANGED <<subs, unread, notifier>>

\* Mutant: an empty channel is taken for a closed one.
ReturnsWhenEmptyMutant == acks = 0

\* Mutant: the notifier keeps its own ack sender while it waits.
KeepsOwnSenderMutant == FALSE

\* recv returns None: the channel is empty and no sender is left.
AllSendersDropped == acks = 0 /\ subs = {}

\* collect_acknowledgements returns and drops what is left of the notifier.
CollectDone ==
  /\ notifier = "collecting"
  /\ AllSendersDropped
  /\ notifier' = "dropped"
  /\ UNCHANGED <<subs, unread, acks>>

=============================================================================
