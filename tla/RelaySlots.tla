----------------------------- MODULE RelaySlots -----------------------------
(***************************************************************************)
(* What the relay loop promises about its capacity, without timers,        *)
(* heartbeats, failures or revocations: two lanes of slots, and one        *)
(* booking at a time.  A slot is booked before the gateway is asked, the   *)
(* reserved lane only while the regular lane is full; the booking is then  *)
(* filled by the job the gateway returns, or cancelled.                    *)
(***************************************************************************)
EXTENDS Integers, FiniteSets

CONSTANTS ExecIds, RegularLimit, ReservedLimit

VARIABLES
  booked,   \* the lane a slot is booked in, or "none"
  busy      \* the executions that run in each lane

slotVars == <<booked, busy>>

Lanes == {"regular", "reserved"}
Limit(lane) == IF lane = "regular" THEN RegularLimit ELSE ReservedLimit
Free(lane) == Cardinality(busy[lane]) < Limit(lane)

SlotsInit == booked = "none" /\ busy = [lane \in Lanes |-> {}]

Book(lane) ==
  /\ booked = "none" /\ Free(lane)
  /\ lane = "reserved" => ~ Free("regular")
  /\ booked' = lane
  /\ UNCHANGED busy

Cancel == booked # "none" /\ booked' = "none" /\ UNCHANGED busy

Fill(e) ==
  /\ booked # "none" /\ \A lane \in Lanes : e \notin busy[lane]
  /\ busy' = [busy EXCEPT ![booked] = @ \cup {e}]
  /\ booked' = "none"

Release(e, lane) ==
  /\ e \in busy[lane]
  /\ busy' = [busy EXCEPT ![lane] = @ \ {e}]
  /\ UNCHANGED booked

(* The process died: nothing is booked and nothing runs. *)
Vanish == booked' = "none" /\ busy' = [lane \in Lanes |-> {}]

SlotsNext ==
  \/ \E lane \in Lanes : Book(lane)
  \/ Cancel \/ Vanish
  \/ \E e \in ExecIds : Fill(e) \/ \E lane \in Lanes : Release(e, lane)

SlotsSpec == SlotsInit /\ [][SlotsNext]_slotVars
=============================================================================
