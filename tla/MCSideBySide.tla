---------------------------- MODULE MCSideBySide ----------------------------
(***************************************************************************)
(* Small instances of the parts side by side for TLC; the cfg file gives   *)
(* the bounds.                                                             *)
(***************************************************************************)
EXTENDS SideBySide, TLC

(* HuntEvidence *)
Task(tool, params) == [tool |-> tool, params |-> params]
Siem == Task("siem", "p1")
Kb == Task("kb", "p2")

\* two tasks in both orders, one of them, one too many, a tool off the menu cut off or
\* not, and parameters the signature refuses
MCPlans ==
  {<<Siem, Kb>>, <<Kb, Siem>>, <<Siem>>, <<Kb, Kb, Siem>>,
   <<Siem, Kb, Task("register", "p1")>>, <<Task("register", "p1")>>, <<Task("siem", "bad")>>}

MCWellFormed == {Siem, Kb, Task("register", "p1")}

-----------------------------------------------------------------------------
(* AuthWorld: two users and two families; one of each dropped; a family with another    *)
(* tool; and one the expectation refuses                                                *)
CONSTANTS soc, lead, ro, hi, look, iso

MCMatrices ==
  {[families |-> (soc :> {ro}) @@ (lead :> {ro, hi}), tools |-> (ro :> {look}) @@ (hi :> {iso})],
   [families |-> (soc :> {ro}), tools |-> (ro :> {look})],
   [families |-> (soc :> {hi}), tools |-> (hi :> {look})],
   [families |-> (soc :> {hi}), tools |-> (hi :> {iso})]}

MCExpected == {[user |-> soc, tool |-> iso, yes |-> FALSE]}

-----------------------------------------------------------------------------
(* PiiVault: two numbers that become one placeholder, and readers of every rank *)
Phone(o) == [placeholder |-> "phone", original |-> o]
MCTexts == {{Phone("o1")}, {Phone("o1"), Phone("o2")}}
MCReaders ==
  {[user |-> "ann", role |-> "duty_lead"], [user |-> "bob", role |-> "analyst"],
   [user |-> "eve", role |-> "none"]}

-----------------------------------------------------------------------------
(* Evals: the same attack twice; a scene; cases left out; a tree with a bad case *)
Case(d, i, p, a, l) ==
  [domain |-> d, input |-> i, policy |-> p, attack |-> a, label |-> l, formed |-> TRUE]
Triage == Case("triage", "alert", "inherit", "none", "tp")
Inject == Case("attack", "alert", "inherit", "alert_injection", "tp")

MCSuites ==
  {<<Inject, Inject>>,
   <<Triage, Case("attack", "scenario", "inherit", "privesc", "none")>>,
   <<Case("attack", "scenario", "never_mock", "sandbox", "none"),
     Case("attack", "prompt", "inherit", "chat_injection", "none")>>,
   <<Triage, [Triage EXCEPT !.formed = FALSE]>>}

Stands ==
  [completed |-> TRUE, verdict |-> "tp", inBounds |-> TRUE, whole |-> TRUE, trail |-> TRUE,
   denied |-> TRUE, extra |-> TRUE, stopped |-> {TRUE}]
MCEvidences ==
  {Stands, [Stands EXCEPT !.verdict = "fp"], [Stands EXCEPT !.denied = FALSE, !.stopped = {}],
   [Stands EXCEPT !.trail = FALSE, !.stopped = {FALSE}]}

Sig(t, v) == [tool |-> t, value |-> v, planted |-> TRUE]
MCEntries ==
  <<[family |-> 1, expected |-> "hit", signatures |-> {Sig("siem", "a"), Sig("ti", "a")}],
    [family |-> 2, expected |-> "miss", signatures |-> {}]>>

Asks(t, v) == [tool |-> t, value |-> v]
First(v) == [tasks |-> {Asks("siem", "a")}, verdict |-> v]
Second == [tasks |-> {Asks("ti", "a"), Asks("siem", "b")}, verdict |-> "hit"]
Found(r, t, n) == [round |-> r, tool |-> t, total |-> n]
AHunt(s, rs, ps) == [status |-> s, rounds |-> rs, reports |-> ps, gap |-> TRUE, cheap |-> TRUE]

\* all found; one signature asked for in vain; cut short; one never asked for
MCHunts ==
  {AHunt("concluded", <<First("none"), Second>>, <<Found(1, "siem", 2), Found(2, "ti", 1)>>),
   AHunt("concluded", <<First("none"), Second>>, <<Found(1, "siem", 0), Found(2, "ti", 1)>>),
   AHunt("cancelled", <<First("hit")>>, <<Found(1, "siem", 2)>>),
   AHunt("concluded", <<First("hit")>>, <<Found(1, "siem", 2)>>)}

-----------------------------------------------------------------------------
(* Scenes: rounds as they should be, a ticket that fits more than its tool or another  *)
(* one, one that outlives its time; a report that rests on a log line and one that     *)
(* does not                                                                            *)
Kid(t, lets, late) == [tool |-> t, lets |-> lets, late |-> late]
RoundOf(subtasks, v, written) ==
  [face |-> TRUE, kids |-> subtasks, verdict |-> v, filed |-> written, stub |-> FALSE]
KbKid == Kid("kb", {"kb"}, FALSE)
SiemKid == Kid("siem", {"siem"}, FALSE)

MCRoundsPlayed ==
  {RoundOf(<<KbKid, SiemKid>>, "none", FALSE), RoundOf(<<KbKid>>, "hit", TRUE),
   RoundOf(<<Kid("kb", {"kb", "isolate"}, FALSE), SiemKid>>, "none", FALSE),
   RoundOf(<<Kid("siem", {"isolate"}, FALSE)>>, "none", FALSE),
   [RoundOf(<<Kid("kb", {"kb"}, TRUE)>>, "hit", FALSE) EXCEPT !.face = FALSE]}

MCTrajectory == <<<<"kb", "siem">>, <<"kb">>>>

MCFindings ==
  {[tool |-> "siem_query", words |-> "log line"], [tool |-> "siem_query", words |-> "made up"]}

-----------------------------------------------------------------------------
(* SelfModify: two declines and a denial with too many attempts, a timeout that recovered *)
Item(id, code, retryable, attempts, lost) ==
  [id |-> id, code |-> code, retryable |-> retryable, attempts |-> attempts, failed |-> lost]
I1 == Item(1, "PAYMENT_DECLINED", FALSE, 2, TRUE)
I2 == Item(2, "PAYMENT_DECLINED", FALSE, 4, TRUE)
I3 == Item(3, "AUTH_DENIED", FALSE, 3, TRUE)
I4 == Item(4, "TEMPORARY_TIMEOUT", TRUE, 2, TRUE)
I5 == Item(5, "TEMPORARY_TIMEOUT", TRUE, 2, FALSE)

\* none; a retry too many of a decline; one question of the ladder answered to please it
MCWhims ==
  {{}, {<<"retry", "PAYMENT_DECLINED", FALSE, 1>>}, {<<"retry", "TEMPORARY_TIMEOUT", TRUE, 3>>},
   {<<"open", "AUTH_DENIED", TRUE, 1>>, <<"retry", "AUTH_DENIED", TRUE, 0>>}}

MCTrajectories == {{I1, I2}, {I1, I3}, {I1, I2, I3, I5}, {I1, I2, I4}, {I5}}

=============================================================================
