-------------------------------- MODULE Pool --------------------------------
(***************************************************************************)
(* What a pool of connections promises the threads that share it: a thread *)
(* that asks may be given a connection that nobody holds, keeps it for     *)
(* itself, and gives it back.                                              *)
(***************************************************************************)
CONSTANTS Threads, Connections

VARIABLES
    asking, \* threads that have asked and were not served yet
    held    \* function from the threads that hold a connection to it

vars == <<asking, held>>

Init == asking = {} /\ held = << >>

Ask(t) ==
    /\ t \notin asking \cup DOMAIN held
    /\ asking' = asking \cup {t}
    /\ UNCHANGED held

Give(t, c) ==
    /\ t \in asking
    /\ \A u \in DOMAIN held : held[u] # c
    /\ asking' = asking \ {t}
    /\ held' = [u \in DOMAIN held \cup {t} |-> IF u = t THEN c ELSE held[u]]

Return(t) ==
    /\ t \in DOMAIN held
    /\ held' = [u \in DOMAIN held \ {t} |-> held[u]]
    /\ UNCHANGED asking

Next ==
    \E t \in Threads :
        \/ Ask(t)
        \/ \E c \in Connections : Give(t, c)
        \/ Return(t)

Spec == Init /\ [][Next]_vars
=============================================================================
