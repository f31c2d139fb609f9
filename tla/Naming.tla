------------------------------ MODULE Naming ---------------------------------
(***************************************************************************)
(* Kubernetes object names and label dictionaries, as the forwarder, the   *)
(* watcher and the telemetry scripts take them apart.  A name is the       *)
(* sequence of its segments between dashes; an absent or empty one is      *)
(* <<>>.  A dictionary is a function on the keys it has.                   *)
(***************************************************************************)
EXTENDS Naturals, Sequences

Absent == <<>>

\* The strings the code compares or falls back to.
Unknown == <<"unknown">>

\* name.rsplit("-", n): without its last n segments when it has more than n.
StripSuffixes(name, n) ==
    IF Len(name) > n THEN SubSeq(name, 1, Len(name) - n) ELSE name

\* d.get(key)
Get(d, key) == IF key \in DOMAIN d THEN d[key] ELSE Absent

\* d.get(key1) or d.get(key2) or ...
FirstOf(d, keys) ==
    LET present == {i \in DOMAIN keys : Get(d, keys[i]) # Absent}
    IN  IF present = {} THEN Absent
        ELSE d[keys[CHOOSE i \in present : \A j \in present : i <= j]]

\* {**e, **d}: what d has goes before what e has.
Over(d, e) == [key \in DOMAIN d \cup DOMAIN e |-> IF key \in DOMAIN d THEN d[key] ELSE e[key]]

\* a or b
Or(a, b) == IF a # Absent THEN a ELSE b
=============================================================================
