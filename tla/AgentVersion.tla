---------------------------- MODULE AgentVersion ----------------------------
(***************************************************************************)
(* What updates promise of the version on a machine, without the runs that *)
(* make them: what is installed was published and never goes back, what is *)
(* recorded was installed as a whole when it was written down, and stays   *)
(* so until something newer is published, unless an installation of the    *)
(* same version was forced and cut short.  Updater implements this         *)
(* specification.                                                          *)
(***************************************************************************)
EXTENDS Naturals

VARIABLES
    newest,     \* the newest version published, checksum and all
    installed,  \* the version last installed to the end
    whole,      \* whether no installation was cut short since
    cut,        \* whether one that was forced was
    recorded    \* the version that later runs take to be installed, 0 if none

versionVars == <<newest, installed, whole, cut, recorded>>

Init ==
    /\ newest = 1 /\ installed = 1 /\ recorded \in {0, 1}
    /\ whole = TRUE /\ cut = FALSE

Publish ==
    /\ newest' \in Nat /\ newest' > newest
    /\ UNCHANGED <<installed, whole, cut, recorded>>

\* Forward, or the same version again.
Install ==
    /\ installed' \in installed..newest
    /\ whole' = TRUE /\ cut' = FALSE
    /\ UNCHANGED <<newest, recorded>>

\* An installation is cut short.  The next update is made again.
BreakOff ==
    /\ recorded < newest
    /\ whole' = FALSE
    /\ UNCHANGED <<newest, installed, cut, recorded>>

\* The same, where the installation was forced.
BreakForced ==
    /\ whole' = FALSE /\ cut' = TRUE
    /\ UNCHANGED <<newest, installed, recorded>>

Record ==
    /\ whole
    /\ recorded' = installed
    /\ UNCHANGED <<newest, installed, whole, cut>>

\* The record is lost; the next update is made again.
Forget ==
    /\ recorded' = 0
    /\ UNCHANGED <<newest, installed, whole, cut>>

Next == Publish \/ Install \/ BreakOff \/ BreakForced \/ Record \/ Forget

Spec == Init /\ [][Next]_versionVars
=============================================================================
