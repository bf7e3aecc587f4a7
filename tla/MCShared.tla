------------------------------- MODULE MCShared -------------------------------
(* The rule modules of packages/shared, and the sign-in sessions, one at a *)
(* time: they share nothing but the clock, so a run follows the one that   *)
(* subject names and leaves the others as they begin.                      *)
EXTENDS PolicyReview, VerifierReputation, KeyLifecycle, AuthSessions, TLC

CONSTANTS m1, m2, s1, s2, o1, c1, tab1, tab2, p1, p2

VARIABLE subject

MCVoters == {m1, m2, s1, s2, o1, c1}

MCRoleOf ==
  (m1 :> "maintainer") @@ (m2 :> "maintainer") @@ (s1 :> "security_council")
  @@ (s2 :> "security_council") @@ (o1 :> "operator") @@ (c1 :> "community_council")

MCTabs == {tab1, tab2}

MCPersons == {p1, p2}

MCLoginTimes == {0}

(* Voters of one role are alike, and so are the persons who revoke keys:   *)
(* no other constant names one of them.                                    *)
Symmetry == Permutations({m1, m2}) \cup Permutations({s1, s2}) \cup Permutations(MCPersons)

MCThresholds ==
  "quorum" :> [floor |-> 2, ceiling |-> 8, impact |-> "moderate"]
  @@ "timeout" :> [floor |-> 1, ceiling |-> 9, impact |-> "high"]

(* A rise within the bounds, a weakening, a fall below the floor.          *)
MCChanges ==
  {[key |-> "quorum", from |-> 4, to |-> 6], [key |-> "timeout", from |-> 4, to |-> 3],
   [key |-> "quorum", from |-> 4, to |-> 1]}

(* Without parameter_change, which every table treats as policy_change.    *)
MCTypes == DecisionTypes \ {"parameter_change"}

MCReviewWindow ==
  [fast_track |-> 0, standard |-> 1, extended |-> 1, security_council |-> 1]

MCWindowDays == {1, 2}
MCIntervals == {0, 2}
MCLifetimes == {0, 1, 3}

Init ==
  /\ PolicyInit /\ ReputationInit /\ KeyInit /\ SessionsInit
  /\ subject \in {"policy", "verifier", "key", "sessions"}
  /\ subject # "key" => key.category = "ci_cd" /\ key.interval = 0 /\ key.expires = 0

Next ==
  /\ UNCHANGED subject
  /\ \/ subject = "policy" /\ PolicyNext /\ UNCHANGED <<verifierVars, keyVars, sessionVars>>
     \/ subject = "verifier" /\ ReputationNext /\ UNCHANGED <<review, keyVars, sessionVars>>
     \/ subject = "key" /\ KeyNext /\ UNCHANGED <<review, verifierVars, sessionVars>>
     \/ subject = "sessions" /\ SessionsNext /\ UNCHANGED <<review, verifierVars, keyVars>>

Spec == Init /\ [][Next]_<<now, subject, review, verifierVars, keyVars, sessionVars>>

=============================================================================
