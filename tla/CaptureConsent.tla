--------------------------- MODULE CaptureConsent ---------------------------
(***************************************************************************)
(* What screen capture promises about each request: the question is asked  *)
(* at most once and answered at most once, a request that was asked about  *)
(* is granted only after it was allowed, and a request that was denied,    *)
(* refused or withdrawn is never granted. Several requests may move in one *)
(* step: the compositor applies a batch of verdicts at a time.             *)
(***************************************************************************)
CONSTANT Requests

VARIABLE consent

States == {"new", "asked", "allow", "deny", "granted", "refused", "withdrawn"}

Moves ==
    {<<"new", s>> : s \in {"granted", "refused", "asked"}} \cup
    {<<"asked", s>> : s \in {"allow", "deny", "withdrawn"}} \cup
    {<<"allow", s>> : s \in {"granted", "refused", "withdrawn"}} \cup
    {<<"deny", s>> : s \in {"refused", "withdrawn"}} \cup
    {<<"granted", s>> : s \in {"refused", "withdrawn"}} \cup
    {<<"refused", "withdrawn">>, <<"withdrawn", "refused">>}

Init == consent = [r \in Requests |-> "new"]

Next == /\ consent' \in [Requests -> States]
        /\ \A r \in Requests : consent'[r] = consent[r] \/ <<consent[r], consent'[r]>> \in Moves

Spec == Init /\ [][Next]_consent
=============================================================================
