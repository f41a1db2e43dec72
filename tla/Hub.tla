--------------------------------- MODULE Hub ---------------------------------
(***************************************************************************)
(* The dashboard's host (joyczl-ops: lib.rs, hub.rs, freshness.rs): how it *)
(* comes up, who it lets in, and the pool of app-server processes, one for *)
(* the home of each user, that are started on demand and closed when idle. *)
(*                                                                         *)
(* client() holds one lock from beginning to end, so it is one step here.  *)
(* A request keeps its handle (an Arc) until it is answered; a stream does *)
(* so until the turn is told.                                              *)
(***************************************************************************)
EXTENDS Integers, FiniteSets

CONSTANTS
    Requests,    \* requests to come
    Users,       \* the users in users.json
    MaxOpen,     \* JOY_HUB_MAX_OPEN
    IdleSweep,   \* is JOY_HUB_IDLE_SECS other than 0?
    MaxSpawns,   \* bound: processes started
    Hosts        \* [loopback, token, hub, built, fresh]: ways to start it

ASSUME HubAssumption == MaxOpen \in Nat \ {0} /\ MaxSpawns \in Nat /\ IdleSweep \in BOOLEAN

VARIABLES
    host,      \* how it is started
    listening, \* is a port open: not yet, yes, or refused
    pool,      \* the users with an entry
    older,     \* <<v, u>>: the entry of v was last used before that of u
    instance,  \* instance[u]: the process in the entry, a number
    live,      \* the processes that run
    spawns,    \* how many were started
    aged,      \* the entries unused for longer than the idle time
    holds,     \* holds[r]: the process a request has a handle on, 0 for none
    outcome    \* outcome[r]: how it ended

hubVars == <<host, listening, pool, older, instance, live, spawns, aged, holds, outcome>>

HubInit ==
    /\ host \in Hosts
    /\ listening = "no"
    /\ pool = {} /\ older = {} /\ instance = [u \in Users |-> 0]
    /\ live = {} /\ spawns = 0 /\ aged = {}
    /\ holds = [r \in Requests |-> 0]
    /\ outcome = [r \in Requests |-> "none"]

-----------------------------------------------------------------------------
(* Coming up                                                               *)

\* Off the loopback address there must be a token; a hub has its users'.
BindingAllowed == host.hub \/ host.loopback \/ host.token

\* The pages must be built, and not before their source was last changed.
PagesAreFresh == host.built /\ host.fresh

\* The first free of ten ports, unless there is none.
Serve ==
    /\ listening = "no"
    /\ listening' \in IF BindingAllowed /\ PagesAreFresh THEN {"yes", "refused"} ELSE {"refused"}
    /\ UNCHANGED <<host, pool, older, instance, live, spawns, aged, holds, outcome>>

-----------------------------------------------------------------------------
(* The pool                                                                *)

IsIdle(u) == \A r \in Requests : holds[r] # instance[u]
Excess == Cardinality(pool) + 1 - MaxOpen

\* Mutant: the least recently used are closed, idle or not.
EvictedAny ==
    {u \in pool : Cardinality({v \in pool : <<v, u>> \in older}) < Excess}

IdleBefore(u) == {v \in pool : IsIdle(v) /\ <<v, u>> \in older}

\* A full pool closes the least recently used of its idle ones, one after the
\* other, until there is room or none is idle.
Evicted == {u \in pool : IsIdle(u) /\ Cardinality(IdleBefore(u)) < Excess}

Stale == IF IdleSweep THEN {u \in pool : u \in aged /\ IsIdle(u)} ELSE {}

\* The order of the entries that are kept, and of the one used now.
Among(kept) == older \cap (kept \X kept)
Latest(kept, u) == Among(kept \ {u}) \cup ((kept \ {u}) \X {u})

\* An entry that is there is used, whatever has become of its process.
Reuses(r, u) ==
    /\ u \in pool
    /\ older' = Latest(pool, u)
    /\ holds' = [holds EXCEPT ![r] = instance[u]]
    /\ outcome' = [outcome EXCEPT ![r] = "held"]
    /\ aged' = aged \ {u}
    /\ UNCHANGED <<pool, instance, live, spawns>>

\* Room is made first; a spawn that fails leaves the room behind.
Spawns(r, u) ==
    /\ u \notin pool
    /\ spawns < MaxSpawns
    /\ LET closed == Evicted \cup Stale
           kept == pool \ closed
           left == live \ {instance[v] : v \in closed}
       IN  \/ /\ pool' = kept \cup {u}
              /\ older' = Latest(kept, u)
              /\ instance' = [instance EXCEPT ![u] = spawns + 1]
              /\ live' = left \cup {spawns + 1}
              /\ spawns' = spawns + 1
              /\ holds' = [holds EXCEPT ![r] = spawns + 1]
              /\ outcome' = [outcome EXCEPT ![r] = "held"]
              /\ aged' = aged \ (closed \cup {u})
           \/ /\ pool' = kept
              /\ older' = Among(kept)
              /\ live' = left
              /\ outcome' = [outcome EXCEPT ![r] = "bad gateway"]
              /\ aged' = aged \ closed
              /\ UNCHANGED <<instance, spawns, holds>>

-----------------------------------------------------------------------------
(* Requests                                                                *)

\* Without a token that is somebody's there is no user.
TurnedAway(r) ==
    /\ listening = "yes" /\ outcome[r] = "none"
    /\ outcome' = [outcome EXCEPT ![r] = "unauthorized"]
    /\ UNCHANGED <<host, listening, pool, older, instance, live, spawns, aged, holds>>

Authorized(r) ==
    /\ listening = "yes" /\ outcome[r] = "none"
    /\ \E u \in Users : Reuses(r, u) \/ Spawns(r, u)
    /\ UNCHANGED <<host, listening>>

\* A live server answers; a dead one cannot.
Finishes(r) ==
    /\ holds[r] # 0
    /\ outcome' = [outcome EXCEPT ![r] = IF holds[r] \in live THEN "answered" ELSE "broken"]
    /\ holds' = [holds EXCEPT ![r] = 0]
    /\ UNCHANGED <<host, listening, pool, older, instance, live, spawns, aged>>

\* Unused for too long: what was used before it is, too.
Ages(u) ==
    /\ IdleSweep
    /\ u \in pool /\ u \notin aged
    /\ \A v \in pool : <<v, u>> \in older => v \in aged
    /\ aged' = aged \cup {u}
    /\ UNCHANGED <<host, listening, pool, older, instance, live, spawns, holds, outcome>>

ServerDies(u) ==
    /\ u \in pool /\ instance[u] \in live
    /\ live' = live \ {instance[u]}
    /\ UNCHANGED <<host, listening, pool, older, instance, spawns, aged, holds, outcome>>

HubNext ==
    \/ Serve
    \/ \E r \in Requests : TurnedAway(r) \/ Authorized(r) \/ Finishes(r)
    \/ \E u \in Users : Ages(u) \/ ServerDies(u)

HubSpec == HubInit /\ [][HubNext]_hubVars

-----------------------------------------------------------------------------
Died == {i \in live : i \notin live'}

(***************************************************************************)
(* No process is closed under a request that has a handle on it, and a     *)
(* pool that grows over its limit keeps no process that is idle            *)
(* (Hub::client: the limit is soft, in use is never evicted).              *)
(***************************************************************************)
PoolSparesWhatIsUsed ==
    [][/\ pool' # pool => \A r \in Requests : holds[r] # 0 => holds[r] \notin Died
       /\ spawns' > spawns /\ Cardinality(pool') > MaxOpen =>
              \A u \in pool \cap pool' : ~IsIdle(u)]_hubVars
=============================================================================
