------------------------- MODULE MCScheduledAudits -------------------------
(* ScheduledAudits for TLC: one project with a monthly and a weekly        *)
(* schedule, on the last days of January and of February; the project's    *)
(* page sends one submission, repeatedly.                                  *)
EXTENDS ScheduledAudits, TLC

MCMonthStart == <<0, 31, 59, 90, 120, 151, 181>>

CONSTANTS project, monthly, weekly

MCLimitOf   == "free" :> 1 @@ "starter" :> 1 @@ "pro" :> 2
MCFirstSubs == <<[plan |-> "pro", until |-> 45, status |-> "ACTIVE"],
                 [plan |-> "starter", until |-> 62, status |-> "ACTIVE"]>>

PageKey == IdempotencyKey("PROJECT_API", project, "a")
MCSubmissions == {[project |-> project, key |-> PageKey]}

MCScheduleFor ==
    monthly :> [project |-> project, frequency |-> "MONTHLY"] @@
    weekly  :> [project |-> project, frequency |-> "WEEKLY"]
=============================================================================
