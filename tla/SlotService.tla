---------------------------- MODULE SlotService ----------------------------
(***************************************************************************)
(* What the memory limiter promises its callers, without channels, tokens  *)
(* or goroutines: at most Max items own a slot; a request for an item is   *)
(* granted only while the item owns one (or takes one of the free ones)    *)
(* and is refused only to a caller whose session was stopped.              *)
(***************************************************************************)
EXTENDS Naturals, FiniteSets

CONSTANTS Lockers,  \* callers that ask for a slot
          Items,    \* what slots are owned by
          NoItem,   \* "no request open"
          Max       \* number of slots

VARIABLES owned,    \* the items that own a slot
          request,  \* request[c]: the item c asked a slot for, or NoItem
          answer,   \* answer[c]: the last answer c got
          stopped   \* the callers whose stop channel is closed

vars == <<owned, request, answer, stopped>>

Answers == {"none", "held", "refused"}

Init ==
  /\ owned = {}
  /\ request = [c \in Lockers |-> NoItem]
  /\ answer = [c \in Lockers |-> "none"]
  /\ stopped = {}

Ask(c, i) ==
  /\ request[c] = NoItem
  /\ request' = [request EXCEPT ![c] = i]
  /\ UNCHANGED <<owned, answer, stopped>>

Reply(c, what) ==
  /\ request[c] # NoItem
  /\ request' = [request EXCEPT ![c] = NoItem]
  /\ answer' = [answer EXCEPT ![c] = what]

Grant(c) ==
  /\ Cardinality(owned \cup {request[c]}) <= Max
  /\ Reply(c, "held")
  /\ owned' = owned \cup {request[c]}
  /\ UNCHANGED stopped

Refuse(c) ==
  /\ c \in stopped
  /\ Reply(c, "refused")
  /\ UNCHANGED <<owned, stopped>>

Release(i) ==
  /\ i \in owned
  /\ owned' = owned \ {i}
  /\ UNCHANGED <<request, answer, stopped>>

Stop(c) ==
  /\ stopped' = stopped \cup {c}
  /\ UNCHANGED <<owned, request, answer>>

Next ==
  \/ \E c \in Lockers : (\E i \in Items : Ask(c, i)) \/ Grant(c) \/ Refuse(c) \/ Stop(c)
  \/ \E i \in Items : Release(i)

Spec == Init /\ [][Next]_vars
=============================================================================
