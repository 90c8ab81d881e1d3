---------------------------- MODULE TokenBucket ----------------------------
(***************************************************************************)
(* What the rate limiter promises an IP: one bucket that starts full, is   *)
(* refilled as time passes and is never thrown away.  A request is let     *)
(* through if the bucket holds a token and refused only if it does not.    *)
(* Nothing is promised of a request that was overtaken by the removal of   *)
(* the entry it had looked up ("late"); it does not touch the bucket.      *)
(***************************************************************************)
EXTENDS Naturals

CONSTANTS Requests, Cost, Burst, Rate

VARIABLES
  level,    \* units in the bucket
  verdict,  \* "none" yet, "granted" or "refused"
  late

bucketVars == << level, verdict, late >>

Init ==
  /\ level = Burst
  /\ verdict = [r \in Requests |-> "none"]
  /\ late = {}

Judge(r, v) == verdict[r] = "none" /\ verdict' = [verdict EXCEPT ![r] = v]

Drip ==
  /\ level' = IF level + Rate < Burst THEN level + Rate ELSE Burst
  /\ UNCHANGED << verdict, late >>

Grant(r) ==
  /\ level >= Cost
  /\ level' = level - Cost
  /\ Judge(r, "granted")
  /\ UNCHANGED late

Refuse(r) ==
  /\ level < Cost
  /\ Judge(r, "refused")
  /\ UNCHANGED << level, late >>

Overtaken(r) ==
  /\ late' = late \cup {r}
  /\ \E v \in {"granted", "refused"} : Judge(r, v)
  /\ UNCHANGED level

Next == Drip \/ \E r \in Requests : Grant(r) \/ Refuse(r) \/ Overtaken(r)

Spec == Init /\ [][Next]_bucketVars
=============================================================================
