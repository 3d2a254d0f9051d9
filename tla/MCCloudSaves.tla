---------------------------- MODULE MCCloudSaves ----------------------------
(* TLC instances of CloudSaves: which entry points a run exercises, and    *)
(* the symmetries of its constants.                                        *)
EXTENDS CloudSaves, TLC

(* A slot that also runs jobs is not interchangeable with one that does not. *)
Interchangeable ==
    Permutations(SnapIds) \cup Permutations(Hashes) \cup Permutations(Handlers \ Jobs)

SyncOps     == {"prepare", "upload", "commit"}
AllOps      == SyncOps \cup {"delete_game", "admin_delete", "delete_retained",
                 "restore", "purge", "read", "sweep_job", "gc_job",
                 "retained_job", "delete_orphan_file", "expire",
                 "set_auto_delete", "fail"}
RaceOps     == SyncOps \cup {"restore", "read", "fail"}
DeleteOps   == SyncOps \cup {"delete_game"}
LivenessOps == DeleteOps \cup {"expire", "sweep_job", "gc_job", "fail"}
=============================================================================
