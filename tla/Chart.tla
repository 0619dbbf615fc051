--------------------------------- MODULE Chart ---------------------------------
(* The charts drawn from a ring (history.rs: realtime or minutes of one    *)
(* client, then lttb).                                                     *)
EXTENDS Ring, Downsample

(* The items a reader sees, oldest first, each later than the one before.  *)
History == [ i \in DOMAIN ToVec |-> [ts |-> i, value |-> ToVec[i]] ]

(* Every chart of the ring has the shape KeepsShape promises.              *)
ChartKeepsShape == KeepsShape(History)

(* Every chart of the ring shows a lone spike, as KeepsSpike promises.     *)
ChartKeepsSpike == KeepsSpike(History)
===============================================================================
