--------------------------- MODULE RuntimeSettings ---------------------------
(****************************************************************************)
(* The runtime settings: the runtime_config and config_meta tables, the     *)
(* updateSettings handler (config.UpdateRuntime, then onRuntime), and the   *)
(* copy the Downloader works with.                                          *)
(*                                                                          *)
(* UpdateRuntime stores the form's values in one transaction without        *)
(* looking at them; LoadRuntime then reads the version, reads the rows and  *)
(* checks them, in two further statements; only if that succeeds does       *)
(* onRuntime hand the values to the Downloader.  At start-up main loads the *)
(* rows, and exits when LoadRuntime refuses them.                           *)
(****************************************************************************)
EXTENDS Naturals, Sequences

CONSTANTS Key,        \* download_attempts, retry_base_delay, max_redirects
          Val,        \* form values
          Valid,      \* the values LoadRuntime accepts
          Forms,      \* what administrators post: values for the keys
          Save,       \* POST /settings requests, each one handled once
          MayCancel,  \* r.Context() may be done between two statements
          MaxCrash    \* bound on the number of crashes

ASSUME ValidAssumption == Valid \subseteq Val /\ Valid # {}
ASSUME FormsAssumption == Forms \subseteq [Key -> Val]
ASSUME MayCancelAssumption == MayCancel \in BOOLEAN
ASSUME MaxCrashAssumption == MaxCrash \in Nat

VARIABLES
    up,         \* the process is running
    crashes,    \* crashes so far
    stored,     \* the rows of runtime_config
    version,    \* config_meta.version
    live,       \* what the Downloader's policy was last set from
    pc,         \* pc[s]: where updateSettings stands for s
    ver,        \* ver[s]: the version LoadRuntime read
    got,        \* got[s]: the rows LoadRuntime read
    history,    \* history[v]: the rows stored as version v
    calm        \* the latest save ran alone and was not refused

vars == <<up, crashes, stored, version, live, pc, ver, got, history, calm>>

Config == [Key -> Val]
Loads(c) == \A k \in Key : c[k] \in Valid
Busy == {s \in Save : pc[s] \in {"version", "rows", "apply"}}

TypeOK ==
    /\ up \in BOOLEAN
    /\ crashes \in 0..MaxCrash
    /\ stored \in Config
    /\ version \in Nat
    /\ live \in Config
    /\ pc \in [Save -> {"idle", "version", "rows", "apply", "ok", "refused", "lost"}]
    /\ ver \in [Save -> Nat]
    /\ got \in [Save -> Config]
    /\ history \in Seq(Config)
    /\ calm \in BOOLEAN

\* The migration's defaults, loaded at the first start.
Init ==
    /\ up = TRUE
    /\ crashes = 0
    /\ stored \in [Key -> Valid]
    /\ version = 1
    /\ live = stored
    /\ pc = [s \in Save |-> "idle"]
    /\ ver = [s \in Save |-> 0]
    /\ got = [s \in Save |-> stored]
    /\ history = <<stored>>
    /\ calm = TRUE

\* UpdateRuntime's transaction: the values as posted, and version + 1.
Commit(s, f) ==
    /\ up
    /\ pc[s] = "idle"
    /\ stored' = f
    /\ version' = version + 1
    /\ history' = Append(history, f)
    /\ pc' = [pc EXCEPT ![s] = "version"]
    /\ calm' = (Busy = {})
    /\ UNCHANGED <<up, crashes, live, ver, got>>

\* The transaction fails: 400, nothing stored.
Rollback(s) ==
    /\ up
    /\ pc[s] = "idle"
    /\ pc' = [pc EXCEPT ![s] = "refused"]
    /\ UNCHANGED <<up, crashes, stored, version, live, ver, got, history, calm>>

\* LoadRuntime: SELECT version ...
LoadVersion(s) ==
    /\ pc[s] = "version"
    /\ ver' = [ver EXCEPT ![s] = version]
    /\ pc' = [pc EXCEPT ![s] = "rows"]
    /\ UNCHANGED <<up, crashes, stored, version, live, got, history, calm>>

\* Mutations: the values are not checked; one of them keeps what was live.
LoadRowsUnchecked(s) ==
    /\ pc[s] = "rows"
    /\ got' = [got EXCEPT ![s] = stored]
    /\ pc' = [pc EXCEPT ![s] = "apply"]
    /\ UNCHANGED <<up, crashes, stored, version, live, ver, history, calm>>

LoadRowsPartly(s) ==
    /\ pc[s] = "rows"
    /\ Loads(stored)
    /\ got' = [got EXCEPT ![s] = LET kept == CHOOSE k \in Key : TRUE
                                 IN  [stored EXCEPT ![kept] = live[kept]]]
    /\ pc' = [pc EXCEPT ![s] = "apply"]
    /\ UNCHANGED <<up, crashes, stored, version, live, ver, history, calm>>

\* ... SELECT key, value, every value accepted.
LoadRows(s) ==
    /\ pc[s] = "rows"
    /\ Loads(stored)
    /\ got' = [got EXCEPT ![s] = stored]
    /\ pc' = [pc EXCEPT ![s] = "apply"]
    /\ UNCHANGED <<up, crashes, stored, version, live, ver, history, calm>>

\* A value is refused, or the request is cancelled: 400, the rows stay as stored.
LoadFails(s) ==
    /\ \/ pc[s] = "rows" /\ ~Loads(stored)
       \/ pc[s] \in {"version", "rows"} /\ MayCancel
    /\ pc' = [pc EXCEPT ![s] = "refused"]
    /\ calm' = FALSE
    /\ UNCHANGED <<up, crashes, stored, version, live, ver, got, history>>

\* onRuntime: Downloader.UpdatePolicy, then the redirect.
Apply(s) ==
    /\ pc[s] = "apply"
    /\ live' = got[s]
    /\ pc' = [pc EXCEPT ![s] = "ok"]
    /\ UNCHANGED <<up, crashes, stored, version, ver, got, history, calm>>

Crash ==
    /\ up
    /\ crashes < MaxCrash
    /\ up' = FALSE
    /\ crashes' = crashes + 1
    /\ pc' = [s \in Save |-> IF s \in Busy THEN "lost" ELSE pc[s]]
    /\ UNCHANGED <<stored, version, live, ver, got, history, calm>>

\* Mutation: the Downloader starts with the defaults.
StartDefaults ==
    /\ ~up
    /\ Loads(stored)
    /\ up' = TRUE
    /\ live' = history[1]
    /\ calm' = TRUE
    /\ UNCHANGED <<crashes, stored, version, pc, ver, got, history>>

\* main: LoadRuntime, NewDownloader.  When the rows do not load it exits instead.
Start ==
    /\ ~up
    /\ Loads(stored)
    /\ up' = TRUE
    /\ live' = stored
    /\ calm' = TRUE
    /\ UNCHANGED <<crashes, stored, version, pc, ver, got, history>>

StartExits == ~up /\ ~Loads(stored) /\ UNCHANGED vars

Terminating == Busy = {} /\ UNCHANGED vars

Next == \/ \E s \in Save : \/ \E f \in Forms : Commit(s, f)
                           \/ Rollback(s) \/ LoadVersion(s) \/ LoadRows(s)
                           \/ LoadFails(s) \/ Apply(s)
        \/ Crash \/ Start \/ StartExits \/ Terminating

Spec == Init /\ [][Next]_vars

-----------------------------------------------------------------------------
(****************************************************************************)
(* The Downloader only ever works with values LoadRuntime accepts (1 to 10  *)
(* attempts, ...), though anything may be stored.                           *)
(****************************************************************************)
LiveLoads == Loads(live)

(****************************************************************************)
(* A Runtime value is never a mixture of two saves: the rows a handler      *)
(* loaded are those of one version, its own or a later one, and not older   *)
(* than the version number it read; so is what the Downloader works with.   *)
(****************************************************************************)
WholeVersions ==
    /\ \A s \in Save : pc[s] = "apply" => \E v \in ver[s]..version : got[s] = history[v]
    /\ \E v \in 1..version : live = history[v]

(****************************************************************************)
(* templates.go:13 "saved in one transaction and effective at once": when   *)
(* no save is in progress, the Downloader works with what is stored - if    *)
(* the latest save ran alone and was not refused.                           *)
(****************************************************************************)
LiveWhenCalm == up /\ calm /\ Busy = {} => live = stored

(****************************************************************************)
(* The same, as the page promises it: without the proviso.                  *)
(****************************************************************************)
LiveIsStored == up /\ Busy = {} => live = stored
=============================================================================
