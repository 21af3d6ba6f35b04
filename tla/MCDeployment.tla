---------------------------- MODULE MCDeployment ----------------------------
(* Deployment on an application with a web process and a worker.             *)
EXTENDS Deployment, TLC

=============================================================================
