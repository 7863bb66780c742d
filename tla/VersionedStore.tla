--------------------------- MODULE VersionedStore ---------------------------
(***************************************************************************)
(* What state.json promises to whoever calls StateStore.update(): a single *)
(* document whose version counts the updates in it.  An update enters the  *)
(* document whole and once, and an update that was acknowledged (update()  *)
(* returned) stays in it for ever, even over a power loss.                 *)
(*                                                                         *)
(* StateStore.tla implements this specification.                           *)
(***************************************************************************)
EXTENDS Integers, FiniteSets

VARIABLES content,   \* the document: its version and the updates applied to it
          acked      \* the updates acknowledged to their callers

vars == <<content, acked>>

Absent == [version |-> -1, applied |-> {}]
Empty  == [version |-> 0, applied |-> {}]

Init == content = Absent /\ acked = {}

Create ==
    /\ content = Absent
    /\ content' = Empty
    /\ UNCHANGED acked

Apply ==
    /\ content # Absent
    /\ \E u \in content'.applied \ content.applied :
          content' = [version |-> content.version + 1, applied |-> content.applied \cup {u}]
    /\ UNCHANGED acked

Acknowledge ==
    /\ \E u \in content.applied : acked' = acked \cup {u}
    /\ UNCHANGED content

\* Only updates that nobody was told of may be undone.
LosePower ==
    /\ acked \subseteq content'.applied /\ content'.applied \subseteq content.applied
    /\ \/ content' = Absent
       \/ content' = [version |-> Cardinality(content'.applied), applied |-> content'.applied]
    /\ UNCHANGED acked

Next == Create \/ Apply \/ Acknowledge \/ LosePower

Spec == Init /\ [][Next]_vars
=============================================================================
