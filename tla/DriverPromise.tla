-------------------------------- MODULE DriverPromise --------------------------------
(* What a driver of an encrypted file promises on every platform: its creation may *)
(* change the key of the file once; while it is open everyone who asks gets a      *)
(* connection and nobody is turned away; when close has returned nobody new is     *)
(* served.                                                                         *)
EXTENDS Naturals

CONSTANTS
    Threads,
    Key,       \* the key of create
    Rekey,     \* {} or {the key to change to}
    Files      \* the keys the file may have before

\* The key of the file when create returns: rekey ?: key.
Target == IF Rekey = {} THEN Key ELSE CHOOSE k \in Rekey : TRUE

VARIABLES
    file,      \* the key the file is written with
    rekeys,    \* how often it was rewritten
    status,    \* "creating", "open", "closing" or "closed"
    asking,    \* who asked for a connection and waits
    using      \* who has one

vars == << file, rekeys, status, asking, using >>

Init ==
    /\ file \in Files /\ rekeys = 0
    /\ status = "creating"
    /\ asking = {} /\ using = {}

Ask(t) ==
    /\ status # "closed" /\ t \notin asking \cup using
    /\ asking' = asking \cup {t}
    /\ UNCHANGED << file, rekeys, status, using >>

\* The first connection rewrites the file, with its own key if that is what create
\* was asked for.
Rewrite ==
    /\ status = "creating" /\ asking # {}
    /\ file = Key /\ Rekey # {} /\ rekeys = 0
    /\ file' = Target /\ rekeys' = 1

Switch == Rewrite /\ UNCHANGED << status, asking, using >>

Serve(t) ==
    /\ t \in asking
    /\ asking' = asking \ {t} /\ using' = using \cup {t}
    /\ Rewrite \/ (file = Target /\ UNCHANGED << file, rekeys >>)
    /\ UNCHANGED status

\* Only a driver that is not open turns someone away; its creation ends with that.
Refuse(t) ==
    /\ t \in asking /\ status # "open"
    /\ asking' = asking \ {t}
    /\ status' = IF status = "creating" THEN "closing" ELSE status
    /\ UNCHANGED << file, rekeys, using >>

\* Connections are given back, or closed with the driver.
Release ==
    /\ using' \in SUBSET using
    /\ UNCHANGED << file, rekeys, status, asking >>

Open ==
    /\ status = "creating" /\ file = Target
    /\ status' = "open"
    /\ UNCHANGED << file, rekeys, asking, using >>

\* The schema of a new driver fails, or close is called.
Close ==
    /\ status \in {"creating", "open"}
    /\ status' = "closing"
    /\ using' \in SUBSET using
    /\ UNCHANGED << file, rekeys, asking >>

Closed ==
    /\ status = "closing"
    /\ status' = "closed"
    /\ UNCHANGED << file, rekeys, asking, using >>

Next ==
    \/ \E t \in Threads : Ask(t) \/ Serve(t) \/ Refuse(t)
    \/ Switch \/ Release \/ Open \/ Close \/ Closed

Spec == Init /\ [][Next]_vars
=============================================================================
