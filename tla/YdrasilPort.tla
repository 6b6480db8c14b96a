---------------------------- MODULE YdrasilPort ----------------------------
(***************************************************************************)
(* What the MMIO bus promises its master: each request asked is performed  *)
(* by the device exactly once, and its response, and no other, is the      *)
(* answer.                                                                 *)
(***************************************************************************)
CONSTANTS Requests, Responses, Forward(_, _)

VARIABLES
    phase,      \* "idle", "asked" or "performed"
    asked,      \* the last request asked
    device,     \* the last access: its request and its response
    got         \* the last answer

\* Forward(r, d) is what of response d reaches the asker of r.
Init == /\ phase = "idle" /\ asked \in Requests
        /\ device \in [req : Requests, rsp : Responses] /\ got \in Responses
Ask(r) == /\ phase = "idle" /\ phase' = "asked" /\ asked' = r
          /\ UNCHANGED <<device, got>>
Perform(d) == /\ phase = "asked" /\ phase' = "performed"
              /\ device' = [req |-> asked, rsp |-> d]
              /\ UNCHANGED <<asked, got>>
Answer == /\ phase = "performed" /\ phase' = "idle"
          /\ got' = Forward(asked, device.rsp)
          /\ UNCHANGED <<asked, device>>

Next == \/ \E r \in Requests : Ask(r)
        \/ \E d \in Responses : Perform(d)
        \/ Answer
Spec == Init /\ [][Next]_<<phase, asked, device, got>>
=============================================================================
