------------------------------ MODULE MCDrift ------------------------------
(* A published database, a job that migrates it and a web service that     *)
(* waits for both; the second commit adds the job, a replica and a volume  *)
(* that must exist, and spells the image of the database in full.          *)
EXTENDS Drift

Image(ref, spelling) == [ref |-> ref, spelling |-> spelling]
Volume(name, external) == [name |-> name, external |-> external]

First ==
  [services    |-> {"db", "web"},
   image       |-> [db |-> Image("pg", "short"), web |-> Image("web1", "full")],
   replicas    |-> [db |-> 1, web |-> 1],
   deps        |-> [db |-> {}, web |-> {"db"}],
   cond        |-> [web |-> [db |-> "started"]],
   healthcheck |-> {"db"}, once |-> {}, static |-> {"db"},
   networks    |-> {"net"},
   volumes     |-> [data |-> Volume("", FALSE)]]

Second ==
  [services    |-> {"db", "job", "web"},
   image       |-> [db |-> Image("pg", "full"), job |-> Image("web2", "full"),
                    web |-> Image("web2", "full")],
   replicas    |-> [db |-> 1, job |-> 1, web |-> 2],
   deps        |-> [db |-> {}, job |-> {"db"}, web |-> {"db", "job"}],
   cond        |-> [job |-> [db |-> "healthy"],
                    web |-> [db |-> "healthy", job |-> "completed"]],
   healthcheck |-> {"db", "web"}, once |-> {"job"}, static |-> {"db"},
   networks    |-> {"net"},
   volumes     |-> [data |-> Volume("shared", FALSE), ext |-> Volume("", TRUE)]]

MCCompose == [v1 |-> First, v2 |-> Second]

MCFilters == {{}, {"job"}, Blank}
=============================================================================
