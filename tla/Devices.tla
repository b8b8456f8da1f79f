------------------------------ MODULE Devices ------------------------------
(***************************************************************************)
(* DeviceRegistration and Terminals, the two ends of a punch.  They share  *)
(* nothing: in each behaviour one of them runs and the other stands still. *)
(***************************************************************************)
EXTENDS DeviceRegistration, FiniteSets

CONSTANTS
    Terminals, Stores, Ttl, MaxTime, Ops,
    Ordered,          \* the stores about which calls come one at a time
    MaxBegun          \* bound on the calls about registrations

VARIABLES
    scene,                               \* which of them runs
    now, terminal, visit, burned         \* Terminals

terminals == <<now, terminal, visit, burned>>

T == INSTANCE Terminals WITH Serialized <- Ordered, call <- visit

ASSUME DevicesAssumption == T!TerminalsAssumption /\ MaxBegun \in Nat

Begun == {c \in Calls : call[c].pc # "idle"}

DevicesInit == scene \in {"registration", "terminals"} /\ Init /\ T!Init

DevicesNext ==
    \/ /\ scene = "registration" /\ Next
       /\ Cardinality(Begun') <= MaxBegun
       /\ UNCHANGED <<scene, terminals>>
    \/ scene = "terminals" /\ T!Next /\ UNCHANGED <<scene, vars>>

DevicesSpec == DevicesInit /\ [][DevicesNext]_<<scene, vars, terminals>>

\* Of terminals, in whichever scene.
TerminalsHold == T!TerminalsHold
=============================================================================
