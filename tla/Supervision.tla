---------------------------- MODULE Supervision ----------------------------
(***************************************************************************)
(* What supervision of long running applications promises, without pids,   *)
(* process table, locks or threads: an instance comes up only for an       *)
(* application that is NORMAL, stopping takes it down in the same step,    *)
(* and serving one application never brings up another.                    *)
(* Anything may go down at any time: programs exit.                        *)
(***************************************************************************)
CONSTANT App

VARIABLES
    active,     \* NORMAL or STOPPED
    up          \* does an instance run?

avars == <<active, up>>

Init ==
    /\ active \in [App -> {"NORMAL", "STOPPED"}]
    /\ up \in [App -> BOOLEAN]
    /\ \A a \in App : up[a] => active[a] = "NORMAL"

\* No application outside S comes up.
OnlyDownBut(S) == \A b \in App \ S : up'[b] => up[b]

Bring(a) ==     \* the monitor found a NORMAL application down
    /\ active[a] = "NORMAL" /\ ~up[a]
    /\ up' = [up EXCEPT ![a] = TRUE]
    /\ UNCHANGED active

Start(a) ==
    /\ active[a] = "STOPPED"
    /\ active' = [active EXCEPT ![a] = "NORMAL"]
    /\ up' \in [App -> BOOLEAN]
    /\ OnlyDownBut({a})

Stop(a) ==
    /\ active[a] = "NORMAL"
    /\ active' = [active EXCEPT ![a] = "STOPPED"]
    /\ up' \in [App -> BOOLEAN]
    /\ ~up'[a]
    /\ OnlyDownBut({a})

GoDown ==
    /\ up' \in [App -> BOOLEAN]
    /\ OnlyDownBut({})
    /\ UNCHANGED active

Next ==
    \/ \E a \in App : Bring(a) \/ Start(a) \/ Stop(a)
    \/ GoDown

Spec == Init /\ [][Next]_avars
=============================================================================
