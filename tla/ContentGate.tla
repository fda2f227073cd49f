---------------------------- MODULE ContentGate ----------------------------
(***************************************************************************)
(* A server started on the ModSource of ModSources: the controller's       *)
(* Pending gate (services/controller/src/reconcile.rs) decides from        *)
(* sync-daemon's answers when the server may be deployed, and the server   *)
(* runs on the snapshot of the tree that is taken when its pod starts.     *)
(***************************************************************************)
EXTENDS ModSources

VARIABLES
  game,          \* the base game has been synced
  srv            \* the server: its step, its -mod= list and its snapshot

gateVars == <<vars, game, srv>>

SrvPcs == {"stopped", "pending", "sources", "paths", "scheduled", "up"}
GateTypeOK == TypeOK /\ game \in BOOLEAN /\ srv \in [pc : SrvPcs, want : SUBSET Mods, snap : SUBSET Mods]

GateInit == Init /\ game = FALSE /\ srv = [pc |-> "stopped", want |-> {}, snap |-> {}]

SrvStep(from, to) == srv.pc = from /\ srv' = [srv EXCEPT !.pc = to]

\* Stopped with desired Running: SyncContent is asked for, best effort.
StartServer ==
  /\ SrvStep("stopped", "pending")
  /\ (\E p \in Passes : Spawn(p)) \/ UNCHANGED pass
  /\ UNCHANGED <<steam, objects, rec, reg, tables, tree, game, bounds>>

\* A pass has the server depots, once a session is authenticated.
GameSynced ==
  /\ syncing
  /\ game' = TRUE
  /\ UNCHANGED <<vars, srv>>

\* GetSyncStatus.
GateStatus ==
  /\ SrvStep("pending", IF syncing \/ ~ game THEN "pending" ELSE "sources")
  /\ UNCHANGED <<vars, game>>

\* not_yet_synced_mod_source; a source that is gone fails the check.
GateSources ==
  /\ SrvStep("sources", IF obj.live \in {"present", "deleting"} /\ obj.status.phase = "Synced"
                          THEN "paths" ELSE "pending")
  /\ UNCHANGED <<vars, game>>

\* resolve_mod_paths asks sync-daemon for the rows and the Deployment is
\* applied; a source that is gone by now makes the server Failed, then Pending.
ModPaths ==
  /\ srv.pc = "paths"
  /\ srv' = IF obj.live \in {"present", "deleting"}
              THEN [srv EXCEPT !.pc = "scheduled", !.want = rows]
              ELSE [srv EXCEPT !.pc = "pending"]
  /\ UNCHANGED <<vars, game>>

\* NodePublishVolume snapshots the tree as it is then.
TakeSnapshot ==
  /\ srv.pc = "scheduled"
  /\ srv' = [srv EXCEPT !.pc = "up", !.snap = tree]
  /\ UNCHANGED <<vars, game>>

\* UpdateServer's return to Pending, or a stop.
Repend ==
  /\ srv.pc = "up"
  /\ \E to \in {"pending", "stopped"} : srv' = [pc |-> to, want |-> {}, snap |-> {}]
  /\ UNCHANGED <<vars, game>>

-----------------------------------------------------------------------------
GateNext ==
  \/ Next /\ UNCHANGED <<game, srv>>
  \/ GameSynced
  \/ StartServer \/ GateStatus \/ GateSources \/ ModPaths \/ TakeSnapshot \/ Repend

GateSpec == GateInit /\ [][GateNext]_gateVars

(***************************************************************************)
(* The gate is to "block on every one of this server's own mod sources     *)
(* reporting Synced" so that the snapshot a server runs on holds the mods  *)
(* it is launched with.                                                    *)
(***************************************************************************)
SnapshotHoldsMods == srv.pc = "up" => srv.want \subseteq srv.snap
=============================================================================
