------------------------------- MODULE OnceOnly -------------------------------
(***************************************************************************)
(* What the executor promises per idempotency key, without capabilities,   *)
(* leases, callers or stores: the effect happens at most once; the fate of *)
(* the key is settled at most once and never changes; "effected" is only   *)
(* said of what happened, and after "refused" nothing happens any more.    *)
(* "unknown" promises nothing: the effect may even still happen.           *)
(***************************************************************************)
CONSTANT Key

VARIABLES
    fate,      \* key -> what is known of it
    happened   \* keys whose effect has happened

Fates == {"open", "claimed", "effected", "refused", "unknown"}

Init ==
    /\ fate = [k \in Key |-> "open"]
    /\ happened = {}

Settle(k, verdict) ==
    /\ fate[k] = "claimed"
    /\ fate' = [fate EXCEPT ![k] = verdict]
    /\ UNCHANGED happened

Claim(k) ==
    /\ fate[k] = "open"
    /\ fate' = [fate EXCEPT ![k] = "claimed"]
    /\ UNCHANGED happened

Happen(k) ==
    /\ fate[k] \in {"claimed", "unknown"}
    /\ k \notin happened
    /\ happened' = happened \cup {k}
    /\ UNCHANGED fate

Effected(k) == k \in happened /\ Settle(k, "effected")
Refused(k)  == k \notin happened /\ Settle(k, "refused")
Doubted(k)  == Settle(k, "unknown")

Next == \E k \in Key : Claim(k) \/ Happen(k) \/ Effected(k) \/ Refused(k) \/ Doubted(k)

Spec == Init /\ [][Next]_<<fate, happened>>
=============================================================================
