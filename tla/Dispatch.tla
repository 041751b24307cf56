------------------------------ MODULE Dispatch ------------------------------
(***************************************************************************)
(* The requests of the combo endpoints, composed of what they pass before  *)
(* their handler (Access) and of the store the handlers call (Combos).     *)
(***************************************************************************)
EXTENDS Access

CONSTANTS Names, Bare, MaxSaves

ASSUME DispatchAssumption == MaxSaves \in Nat /\ Names # {} /\ Bare \in [Names -> Names]

VARIABLES local, redis, saves, op, may, stale

C == INSTANCE Combos

store == <<local, redis, saves, op, may, stale>>
all == <<vars, store>>

ServedAsSaved == C!ServedAsSaved
ListAgrees == C!ListAgrees
StoreSpec == C!Spec

DispatchInit == Init /\ C!Init

\* A combo handler calls the store, and answers what it returns.
Call(p) == ToStore(p) /\ C!Call(p)
Return(p) == FromStore(p) /\ C!Return(p)

DispatchStep(p) ==
    \/ Step(p) /\ UNCHANGED store
    \/ Call(p) \/ Return(p)
    \/ C!Step(p) /\ UNCHANGED vars

DispatchNext ==
    \/ Tick /\ UNCHANGED store
    \/ Restart /\ C!Restart
    \/ \E p \in Procs :
          \/ \E r \in Asked, s \in Sources : Arrive(p, r[1], r[2], s) /\ UNCHANGED store
          \/ DispatchStep(p)
          \/ Reject(p) /\ UNCHANGED store
          \/ Leave(p) /\ UNCHANGED store

DispatchSpec == DispatchInit /\ [][DispatchNext]_all

\* The clock goes on.
FairSpec == DispatchSpec /\ WF_all(Tick /\ UNCHANGED store)
=============================================================================
