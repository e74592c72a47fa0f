--------------------------- MODULE MCMaintenance ---------------------------
(* Small instances of MaintenanceService: the main thread, the scheduler and *)
(* at most one worker, a policy of one or two categories.                    *)
EXTENDS MaintenanceService
=============================================================================
