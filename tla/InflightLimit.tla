---------------------------- MODULE InflightLimit ----------------------------
(***************************************************************************)
(* What the in-flight limit of the HTTP service promises its clients: at   *)
(* most MaxInflight requests own a slot, requests that cannot be admitted  *)
(* at once line up, only the head of the line is admitted when a slot is   *)
(* free, nobody is admitted past the line, and any request may give up.    *)
(* RequestSlots is the detailed specification that implements this one.    *)
(***************************************************************************)
EXTENDS Naturals, Sequences, FiniteSets, SequencesExt

CONSTANTS Requests,     (* the requests clients may send                      *)
          MaxInflight   (* Settings.max_inflight                              *)

VARIABLES line,         (* the requests waiting for a slot, oldest first      *)
          inflight      (* the requests that own a slot                       *)

limitVars == <<line, inflight>>

Init ==
    /\ line = <<>>
    /\ inflight = {}

HasRoom == Cardinality(inflight) < MaxInflight

Outside == Requests \ (inflight \cup ToSet(line))

(* A request that finds room and an empty line is admitted at once. *)
AdmitDirectly(r) ==
    /\ r \in Outside
    /\ line = <<>>
    /\ HasRoom
    /\ inflight' = inflight \cup {r}
    /\ UNCHANGED line

(* Any other request lines up. *)
JoinLine(r) ==
    /\ r \in Outside
    /\ line' = Append(line, r)
    /\ UNCHANGED inflight

(* The oldest waiting request is admitted when there is room. *)
AdmitHead ==
    /\ line # <<>>
    /\ HasRoom
    /\ inflight' = inflight \cup {Head(line)}
    /\ line' = Tail(line)

(* A waiting request gives up: its acquire timeout has passed. *)
GiveUp(i) ==
    /\ line' = RemoveAt(line, i)
    /\ UNCHANGED inflight

(* A request gives its slot back. *)
Leave(r) ==
    /\ r \in inflight
    /\ inflight' = inflight \ {r}
    /\ UNCHANGED line

Next ==
    \/ \E r \in Requests : AdmitDirectly(r) \/ JoinLine(r) \/ Leave(r)
    \/ AdmitHead
    \/ \E i \in DOMAIN line : GiveUp(i)

(* Room is not left unused while somebody waits. *)
Spec == Init /\ [][Next]_limitVars /\ WF_limitVars(AdmitHead)
==============================================================================
