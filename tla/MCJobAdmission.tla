--------------------------- MODULE MCJobAdmission ---------------------------
(* Two Jobs under one of three catalogs: both on power and the first on       *)
(* thermal; one on power and on readiness; or schedules of either cadence.    *)
EXTENDS JobAdmission

None == [j \in Jobs |-> {}]
Hourly(t) == [cadence |-> "hourly", at |-> t]
Daily(t) == [cadence |-> "daily", at |-> t]

MCCatalogs ==
  {[triggers |-> {<<1, "power">>, <<2, "power">>, <<1, "thermal">>}, schedules |-> None],
   [triggers |-> {<<1, "ready">>, <<2, "ready">>, <<2, "power">>}, schedules |-> None],
   [triggers |-> {}, schedules |-> <<{Hourly(0), Hourly(1), Daily(1)}, {Hourly(1)}>>]}
=============================================================================
