------------------------------ MODULE LifeCycle ------------------------------
(****************************************************************************)
(* The life of the process: main's start-up, App.Run with its two servers,  *)
(* the stop on SIGTERM or on a listener's failure, the exit status, and     *)
(* the next start on the same data directory with another environment.      *)
(*                                                                          *)
(* Run shuts the data plane down first, then the admin plane, under one     *)
(* deadline of 15 s for both.  Shutdown closes the plane's listener and     *)
(* waits until its connections are closed; nothing interrupts a handler, so *)
(* one may still run when the process exits and is killed with it.  A       *)
(* handler goes here with the connection it serves, one by one, all the     *)
(* time that this is open.                                                  *)
(****************************************************************************)
EXTENDS Naturals

CONSTANTS Handler,    \* handlers, each with its connection; a name is used again
          PlaneOf,    \* PlaneOf[h]: the server that accepts h
          Password,   \* values of ADMIN_PASSWORD
          None        \* no start yet; no administrator yet; no exit status yet

ASSUME PlaneOfType == PlaneOf \in [Handler -> {"data", "admin"}]

VARIABLES
    at,         \* where main stands, or "down"
    env,        \* ADMIN_PASSWORD of this start
    account,    \* the password the admins table was given
    sig,        \* SIGTERM or SIGINT has arrived: ctx is done
    lst,        \* lst[p]: the listener of plane p
    active,     \* handlers whose connection is open
    runErr,     \* App.Run's runErr # nil
    e1,         \* App.Run's e1 # nil
    deadline,   \* shutdownCtx is done
    exit,       \* how the process ended last
    killed,     \* handlers it took with it
    newcomer    \* handlers whose connection was accepted after Run had begun to shut down

life == <<at, env, account, sig, lst, active, runErr, e1, deadline, exit, killed, newcomer>>

Plane == {"data", "admin"}
Starting == {"bootstrap", "prepare", "open", "load", "account"}
Closing == {"closeData", "closeAdmin"}
After == [bootstrap |-> "prepare", prepare |-> "open", open |-> "load", load |-> "account"]

LifeTypeOK ==
    /\ at \in Starting \cup Closing \cup {"serve", "down"}
    /\ {env, account} \subseteq Password \cup {None}
    /\ {sig, runErr, e1, deadline} \subseteq BOOLEAN
    /\ lst \in [Plane -> {"none", "starting", "up", "failed", "closed"}]
    /\ active \subseteq Handler
    /\ exit \in {None, "0", "1", "signal"}
    /\ killed \subseteq Handler
    /\ newcomer \subseteq active

\* A machine the gateway has never run on.
LifeInit ==
    /\ at = "down"
    /\ env = None
    /\ account = None
    /\ sig = FALSE
    /\ lst = [p \in Plane |-> "none"]
    /\ active = {}
    /\ runErr = FALSE
    /\ e1 = FALSE
    /\ deadline = FALSE
    /\ exit = None
    /\ killed = {}
    /\ newcomer = {}

Of(p) == {h \in active : PlaneOf[h] = p}

\* The process ends, and takes its handlers with it.
Ends(status) ==
    /\ at' = "down"
    /\ exit' = status
    /\ killed' = active
    /\ active' = {}
    /\ newcomer' = {}
    /\ lst' = [p \in Plane |-> "none"]
    /\ UNCHANGED <<env, account, sig, runErr, e1, deadline>>

-----------------------------------------------------------------------------
(* main up to Run.                                                          *)

\* A new process, with whatever .env says now.
Begin(pw) ==
    /\ at = "down"
    /\ at' = "bootstrap"
    /\ env' = pw
    /\ sig' = FALSE
    /\ runErr' = FALSE
    /\ e1' = FALSE
    /\ deadline' = FALSE
    /\ exit' = None
    /\ killed' = {}
    /\ UNCHANGED <<account, lst, active, newcomer>>

\* LoadBootstrap, Prepare, Open, LoadRuntime: the last two stop when ctx is done.
Advance ==
    /\ at \in DOMAIN After
    /\ at \in {"open", "load"} => ~sig
    /\ at' = After[at]
    /\ UNCHANGED <<env, account, sig, lst, active, runErr, e1, deadline, exit, killed, newcomer>>

\* One of the steps of the start fails: os.Exit(1).
Refuse == at \in Starting /\ Ends("1")

\* EnsureAdmin: count(*), then INSERT when it is 0.  Then Run starts two goroutines.
EnsureAdmin ==
    /\ at = "account"
    /\ account' = IF account = None THEN env ELSE account
    /\ at' = "serve"
    /\ lst' = [p \in Plane |-> "starting"]
    /\ UNCHANGED <<env, sig, active, runErr, e1, deadline, exit, killed, newcomer>>

-----------------------------------------------------------------------------
(* The servers.                                                             *)

\* Shutdown of plane p has been called.
Closed(p) == at = "closeAdmin" \/ (at = "closeData" /\ p = "data")

\* ListenAndServe: the address is bound or is not; after Shutdown it gives up.
Listen(p) ==
    /\ lst[p] = "starting"
    /\ \E l \in IF Closed(p) THEN {"closed"} ELSE {"up", "failed"} : lst' = [lst EXCEPT ![p] = l]
    /\ UNCHANGED <<at, env, account, sig, active, runErr, e1, deadline, exit, killed, newcomer>>

Accept(h) ==
    /\ lst[PlaneOf[h]] = "up"
    /\ h \notin active
    /\ active' = active \cup {h}
    /\ newcomer' = IF at \in Closing THEN newcomer \cup {h} ELSE newcomer
    /\ UNCHANGED <<at, env, account, sig, lst, runErr, e1, deadline, exit, killed>>

Finish(h) ==
    /\ h \in active
    /\ active' = active \ {h}
    /\ newcomer' = newcomer \ {h}
    /\ UNCHANGED <<at, env, account, sig, lst, runErr, e1, deadline, exit, killed>>

\* SIGTERM or SIGINT; before NotifyContext it ends the process as any signal does.
Signal ==
    /\ at # "down"
    /\ ~sig
    /\ IF at \in {"bootstrap", "prepare"} THEN Ends("signal")
       ELSE /\ sig' = TRUE
            /\ UNCHANGED <<at, env, account, lst, active, runErr, e1, deadline, exit, killed, newcomer>>

\* SIGKILL (docker compose stop sends it 10 s after SIGTERM), a panic, power.
Kill == at # "down" /\ Ends("signal")

-----------------------------------------------------------------------------
(* App.Run from its select on.                                              *)

CloseListener(p) == lst' = [lst EXCEPT ![p] = IF @ = "up" THEN "closed" ELSE @]

\* The select: ctx.Done, or the error of a listener.  Then data.Shutdown begins.
Stop ==
    /\ at = "serve"
    /\ \/ sig /\ runErr' = FALSE
       \/ (\E p \in Plane : lst[p] = "failed") /\ runErr' = TRUE
    /\ at' = "closeData"
    /\ CloseListener("data")
    /\ UNCHANGED <<env, account, sig, active, e1, deadline, exit, killed, newcomer>>

\* 15 s after the stop.
Deadline ==
    /\ at \in Closing
    /\ ~deadline
    /\ deadline' = TRUE
    /\ UNCHANGED <<at, env, account, sig, lst, active, runErr, e1, exit, killed, newcomer>>

\* Mutation: Shutdown waits without a deadline.
DataClosesInTheEnd ==
    /\ at = "closeData"
    /\ Of("data") = {}
    /\ e1' = FALSE
    /\ at' = "closeAdmin"
    /\ CloseListener("admin")
    /\ UNCHANGED <<env, account, sig, active, runErr, deadline, exit, killed, newcomer>>

\* data.Shutdown returns: all its handlers have ended, or the deadline passed.
DataCloses ==
    /\ at = "closeData"
    /\ \/ Of("data") = {} /\ e1' = FALSE
       \/ Of("data") # {} /\ deadline /\ e1' = TRUE
    /\ at' = "closeAdmin"
    /\ CloseListener("admin")
    /\ UNCHANGED <<env, account, sig, active, runErr, deadline, exit, killed, newcomer>>

\* Mutation: the error of data.Shutdown is lost.
ExitsOnE2 ==
    /\ at = "closeAdmin"
    /\ \/ Of("admin") = {} /\ Ends(IF runErr THEN "1" ELSE "0")
       \/ Of("admin") # {} /\ deadline /\ Ends("1")

\* admin.Shutdown returns likewise, and with it Run and main: exit status 1 for
\* any error, else store.Close and 0.
Exits ==
    /\ at = "closeAdmin"
    /\ \/ Of("admin") = {} /\ Ends(IF runErr \/ e1 THEN "1" ELSE "0")
       \/ Of("admin") # {} /\ deadline /\ Ends("1")

-----------------------------------------------------------------------------
Main == Advance \/ EnsureAdmin \/ Stop \/ DataCloses \/ Exits

LifeNext ==
    \/ \E pw \in Password : Begin(pw)
    \/ Main \/ Refuse \/ Signal \/ Kill \/ Deadline
    \/ \E p \in Plane : Listen(p)
    \/ \E h \in Handler : Accept(h) \/ Finish(h)

LifeSpec == LifeInit /\ [][LifeNext]_life

\* Main and the listeners run, and the 15 s pass; handlers may take for ever.
LifeFairness == WF_life(Main \/ Refuse) /\ WF_life(Deadline) /\ \A p \in Plane : WF_life(Listen(p))

-----------------------------------------------------------------------------
(****************************************************************************)
(* Exit status 0 says that no handler was interrupted, on either plane, and *)
(* that the database was closed with none at work.                          *)
(****************************************************************************)
CleanExit == exit = "0" => killed = {}

(****************************************************************************)
(* A handler the deadline kills had its connection when the stop began:     *)
(* only the admin plane, which goes on accepting while the data plane is    *)
(* waited for, can have one that was accepted later.                        *)
(****************************************************************************)
DataSealed == \A h \in newcomer : PlaneOf[h] = "admin"

(****************************************************************************)
(* A process that is told to stop, or one of whose planes cannot listen,    *)
(* ends - whatever its start was doing, and though handlers never finish.   *)
(****************************************************************************)
Told == sig \/ \E p \in Plane : lst[p] = "failed"
EndsWhenTold == at # "down" /\ Told ~> at = "down"
=============================================================================
