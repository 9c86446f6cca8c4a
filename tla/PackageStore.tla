---------------------------- MODULE PackageStore ----------------------------
(***************************************************************************)
(* What the storage of one package promises its callers: creations and      *)
(* updates happen one at a time, each at some moment before its answer, and *)
(* none is lost.  An update that fails is not seen; one that is answered    *)
(* with success was seen before.                                            *)
(***************************************************************************)
CONSTANTS Updaters, Creators, Absent

VARIABLES
    value,      \* Absent, or the set of updates the package holds
    acked       \* the requests answered with success

vars == <<value, acked>>

Init == value \in {Absent, {}} /\ acked = {}

Create(c) ==
    /\ value = Absent
    /\ value' = {}
    /\ acked' = acked \cup {c}

Update(u) ==
    /\ value # Absent
    /\ value' = value \cup {u}
    /\ UNCHANGED acked

Answer(u) ==
    /\ value # Absent /\ u \in value
    /\ acked' = acked \cup {u}
    /\ UNCHANGED value

Next ==
    \/ \E c \in Creators : Create(c)
    \/ \E u \in Updaters : Update(u) \/ Answer(u)

Spec == Init /\ [][Next]_vars
=============================================================================
