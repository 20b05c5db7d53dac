------------------------- MODULE ExecutionCertificate -------------------------
(***************************************************************************)
(* ExecutionCertificateValidator.validate (execution_certificate.py) over  *)
(* the rows GraphScheduler logs: the validator holds no state row, only    *)
(* the log, and drives a fresh monitor through it in the order of the log. *)
(* Here it is fed every row as it is logged, so at each moment `replay` is *)
(* what it makes of the log so far.  Signatures and digests are external:  *)
(* what is checked is that an honest log is certified, and to what state.  *)
(***************************************************************************)
EXTENDS GraphScheduler

VARIABLE replay   \* instance -> the validator's monitor state, and whether it raised on the way

Start == [completed |-> {}, events |-> [n \in Node |-> NoFacts], started |-> {}, certified |-> TRUE]

CertificateInit == Init /\ replay = [i \in Instance |-> Start]

Raised(s) == [s EXCEPT !.certified = FALSE]
Reserved(s, n) ==
    [completed |-> s.completed, events |-> s.events, started |-> s.started \cup {n}, certified |-> s.certified]
Finished(s, n, p) ==
    [completed |-> s.completed \cup {n}, events |-> [s.events EXCEPT ![n] = p],
     started |-> s.started \ {n}, certified |-> s.certified]

MayStart(s, r) == Enabled(r.node, s.completed, s.started, s.events, r.payload)

ReplayedAtOnce(s, r) ==    \* mutant: a completion is replayed as a fresh transition
    IF r.kind = "started" /\ MayStart(s, r) THEN Reserved(s, r.node)
    ELSE IF r.kind # "started" /\ MayStart(s, r) THEN Finished(s, r.node, r.payload)
    ELSE Raised(s)

\* monitor.reserve, monitor.complete or monitor.advance, as the row asks for.
Replayed(s, r) ==
    IF r.kind = "started" /\ MayStart(s, r) THEN Reserved(s, r.node)
    ELSE IF r.kind # "started" /\ (r.node \in s.started \/ MayStart(s, r))
         THEN Finished(s, r.node, r.payload)
    ELSE Raised(s)

Certify ==
    replay' = [i \in Instance |->
        IF \E r \in trace' \ trace : r.instance = i
        THEN Replayed(replay[i], CHOOSE r \in trace' \ trace : r.instance = i)
        ELSE replay[i]]

CertificateNext == Next /\ Certify

CertificateSpec == CertificateInit /\ [][CertificateNext]_<<vars, replay>>

(* Whatever the scheduler admitted, the validator certifies, and it ends   *)
(* in the very state the scheduler holds: what completions brought late,   *)
(* in parallel or twice leaves a log that reads as it happened.            *)
LogCertifiesState ==
    \A i \in Instance :
        replay[i] = [completed |-> completed[i], events |-> events[i], started |-> Started(i), certified |-> TRUE]
===============================================================================
