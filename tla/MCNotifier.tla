----------------------------- MODULE MCNotifier -----------------------------
\* A rule on every direction, with a cooldown that runs out and reminders.
EXTENDS Notifier

Offered == [on |-> Directions, channels |-> Channels, cooldown |-> 1, every |-> 1]
OneRule == [r \in Rules |-> Offered]
=============================================================================
