----------------------------- MODULE MCUpdater ------------------------------
(* Unit lists for checking Updater. *)
EXTENDS Updater

\* The second version adds the sign-off and a timer.
GrowingList ==
    <<{"heartbeat.service", "update.timer"},
      {"heartbeat.service", "update.timer", "snapshot.timer",
       "signoff.service"}>>
=============================================================================
