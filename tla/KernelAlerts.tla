---------------------------- MODULE KernelAlerts ----------------------------
(***************************************************************************)
(* The kernel log in a heartbeat (cloud_push._collect_live_dmesg).         *)
(*                                                                         *)
(* A heartbeat whose dmesg section is due reads the ring buffer, unless a  *)
(* cached reading is fresh, and counts the critical lines of the last half *)
(* hour: that count raises an alert.  The ring keeps a line for days, so a *)
(* line must stop counting; a stamp ahead of the clock, from before it was *)
(* set back, would never do so and is believed only a little ahead.  dmesg *)
(* prints dates, which the code takes to stay what they are when the clock *)
(* is corrected, or, in its plain form, seconds since the boot, which it   *)
(* dates by the clock at the time of reading.  A line may also have no     *)
(* stamp at all.                                                           *)
(* Of the lines in the section only those that count are kept here.        *)
(***************************************************************************)
EXTENDS Integers

CONSTANTS
    Unread,      \* the stamp of a line whose time cannot be read
    CacheTtl,    \* _LIVE_DMESG_TTL_SECONDS
    AlertWindow, \* _LIVE_DMESG_WINDOW_SECONDS
    ClockSkew    \* _DMESG_CLOCK_SKEW_SECONDS

ASSUME KernelAlertsAssumption ==
    /\ {CacheTtl, AlertWindow, ClockSkew} \subseteq Nat
    /\ Unread \notin Int

\* Mutant: a stamp from the future counts as recent.
RecentAhead(line, now) == line.at >= now - AlertWindow

\* A stamped line within the window, and no further ahead than believed.
Recent(line, now) ==
    /\ line.at >= now - AlertWindow
    /\ line.at <= now + ClockSkew

\* _recent_critical: the lines that count, all of them when none has a stamp
\* that can be read.
RecentCritical(critical, now) ==
    LET stamped == {line \in critical : line.at # Unread}
    IN IF critical = {} \/ stamped # {}
       THEN {line \in stamped : Recent(line, now)}
       ELSE critical

\* The reading made from what dmesg printed, or failed to print.  The plain
\* form is asked for when the first fails or prints nothing.
Section(iso, plain, now) ==
    LET lines == IF iso.ok /\ iso.lines # {} THEN iso.lines
                 ELSE IF plain.ok THEN plain.lines
                 ELSE {}
    IN [counted |-> RecentCritical({line \in lines : line.critical}, now),
        available |-> iso.ok \/ plain.ok]

\* _fresh: a time ahead of the clock is not.
Fresh(savedAt, age, now) == now - savedAt \in 0..age - 1

\* _load_live_dmesg_cache: the cached reading if it is fresh.
Cached(cache, now) == {c \in cache : Fresh(c.at, CacheTtl, now)}

\* A line of the ring as dmesg prints it with dates, and without them.
Dated(line) == [id |-> line.id, at |-> line.date, critical |-> line.critical]

SinceBoot(line, bootTime) ==
    [id |-> line.id, critical |-> line.critical,
     at |-> IF line.up = Unread THEN Unread ELSE bootTime + line.up]
=============================================================================
