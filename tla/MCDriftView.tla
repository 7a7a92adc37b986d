------------------------------ MODULE MCDriftView ------------------------------
(* Small instances of DriftView: two Applications of a project, or one of  *)
(* the project and one of the platform, that may report the same objects.  *)
EXTENDS DriftView, TLC

Row(sync, health) == [sync |-> sync, health |-> health]

App(repos, rows, refused, sync, health, op, cond) ==
    [repos |-> repos, rows |-> rows, refused |-> refused, sync |-> sync, health |-> health, op |-> op, cond |-> cond]

Good == App(<<"r">>, "vm" :> Row("Synced", "Healthy") @@ "seg" :> Row("Synced", None), {}, "Synced", "Healthy", "Succeeded", FALSE)

TwoApps == <<"a1", "a2">>

SomeApps ==
    {[Good EXCEPT !.rows["vm"].health = "Degraded", !.health = "Degraded"],
     [Good EXCEPT !.rows = "seg" :> Row("OutOfSync", None), !.refused = {"seg", "vm"}, !.op = "Running", !.cond = TRUE],
     App(<<"plat", "r">>, Absent, {}, "OutOfSync", "Missing", "Failed", FALSE)}
================================================================================
