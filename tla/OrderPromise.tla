---------------------------- MODULE OrderPromise ----------------------------
(***************************************************************************)
(* What the execution chain promises about one commandId (ADR 0010),        *)
(* whatever is delivered twice, lost, crashed or restarted underneath:      *)
(*   - the broker is asked at most once, and only after the journal says    *)
(*     the outcome is open;                                                 *)
(*   - once a verdict is written it is the truth about the broker, and it   *)
(*     never changes.                                                       *)
(* ExecutionAgent is shown to implement this specification.                 *)
(***************************************************************************)
CONSTANT Commands

VARIABLES fate,     \* what the broker did with the command
          verdict   \* what the journal says of it

vars == <<fate, verdict>>

Fates == {"untried", "inflight", "placed", "refused"}
Verdicts == {"none", "open", "done", "nothing"}

TypeOK == /\ fate \in [Commands -> Fates]
          /\ verdict \in [Commands -> Verdicts]

Init == /\ fate = [c \in Commands |-> "untried"]
        /\ verdict = [c \in Commands |-> "none"]

\* The command is claimed: its outcome is open until somebody settles it.
Claim(c) == /\ verdict[c] = "none"
            /\ verdict' = [verdict EXCEPT ![c] = "open"]
            /\ UNCHANGED fate

\* The broker is asked, once: only a claimed command that was never tried.
Attempt(c) == /\ verdict[c] = "open"
              /\ fate[c] = "untried"
              /\ fate' = [fate EXCEPT ![c] = "inflight"]
              /\ UNCHANGED verdict

\* The broker takes the order or refuses it.
Settle(c) == /\ fate[c] = "inflight"
             /\ \E end \in {"placed", "refused"} : fate' = [fate EXCEPT ![c] = end]
             /\ UNCHANGED verdict

\* A verdict is final and true: "done" of a placed order, "nothing" of an
\* order that is not and will not be at the broker.
Conclude(c) ==
    /\ \/ /\ verdict[c] = "open"
          /\ fate[c] = "placed"
          /\ verdict' = [verdict EXCEPT ![c] = "done"]
       \/ /\ verdict[c] = "open"
          /\ fate[c] = "refused"
          /\ verdict' = [verdict EXCEPT ![c] = "nothing"]
       \/ /\ verdict[c] = "none"
          /\ verdict' = [verdict EXCEPT ![c] = "nothing"]
    /\ UNCHANGED fate

Next == \E c \in Commands : Claim(c) \/ Attempt(c) \/ Settle(c) \/ Conclude(c)

Spec == Init /\ [][Next]_vars
=============================================================================
