---------------------------- MODULE PrivacyRegister ----------------------------
(* What the register of privacy activities promises, without versions, requests *)
(* in flight, transactions or a clock: an activity is recorded once and         *)
(* collects signatures, each by whom it may be given, in one order only.        *)
EXTENDS Sequences

CONSTANTS Activities, Subjects, Nobody

Verdicts == {"conditionally_approved", "approved", "rejected"}

VARIABLES stage, requester, owner, signatures

register == <<stage, requester, owner, signatures>>

Init ==
  /\ stage = [a \in Activities |-> "none"]
  /\ requester = [a \in Activities |-> Nobody]
  /\ owner = [a \in Activities |-> Nobody]
  /\ signatures = [a \in Activities |-> <<>>]

Record(a) ==
  /\ stage[a] = "none"
  /\ stage' = [stage EXCEPT ![a] = "draft"]
  /\ \E s \in Subjects : requester' = [requester EXCEPT ![a] = s]
  /\ \E s \in Subjects : owner' = [owner EXCEPT ![a] = s]
  /\ UNCHANGED signatures

(* One of the people S takes the activity one stage on by signing. *)
Sign(a, from, to, S) ==
  /\ stage[a] = from
  /\ stage' = [stage EXCEPT ![a] = to]
  /\ \E s \in S : signatures' = [signatures EXCEPT ![a] = Append(@, <<to, s>>)]
  /\ UNCHANGED <<requester, owner>>

Attest(a) == Sign(a, "draft", "owner_attested", {owner[a]})
Submit(a) == Sign(a, "owner_attested", "dpo_review", {owner[a]})
Decide(a) ==
  \E v \in Verdicts :
    Sign(a, "dpo_review", v, Subjects \ {owner[a], requester[a]})

Next == \E a \in Activities : Record(a) \/ Attest(a) \/ Submit(a) \/ Decide(a)

Spec == Init /\ [][Next]_register

===============================================================================
