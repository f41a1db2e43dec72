------------------------------- MODULE McpAuth -------------------------------
(***************************************************************************)
(* Signing in to a remote MCP server (joyczl-mcp/src/oauth.rs): the token  *)
(* store, which two processes may share (an app that refreshes its token   *)
(* before it connects, `joy mcp login` in a terminal), and the steps of    *)
(* each, any of which may be its last.                                     *)
(*                                                                         *)
(* A file is an inode and a name.  What cannot be parsed loads as nothing, *)
(* so an empty file and half a file are both Empty here.                   *)
(***************************************************************************)
EXTENDS Naturals, FiniteSets

CONSTANTS Apps, Logins   \* the processes, by what they are there for

AuthProcesses == Apps \cup Logins

ASSUME AuthAssumption == Apps \cap Logins = {} /\ IsFiniteSet(AuthProcesses)

VARIABLES
    step,       \* where each process is
    saving,     \* saving[p]: what p is about to save, client_info or tokens
    held,       \* held[p]: the StoredAuth p loaded and changed
    fd,         \* fd[p]: the inode p has open
    disk,       \* what is in each inode
    fileAt,     \* the inode under <server>.json, 0 for none
    tmpAt,      \* the inode under <server>.json.tmp
    overlapped, \* history: one save began while another was under way
    owned       \* history: [client, renew] that a finished save has stored

authVars == <<step, saving, held, fd, disk, fileAt, tmpAt, overlapped, owned>>
files == <<disk, fileAt, tmpAt>>
history == <<overlapped, owned>>

StoredAuth == [tokens : {"none", "good", "expired"}, renew : BOOLEAN, client : BOOLEAN]
Empty == [tokens |-> "none", renew |-> FALSE, client |-> FALSE]

Inodes == 1..Cardinality(AuthProcesses) + 1

Load == IF fileAt = 0 THEN Empty ELSE disk[fileAt]

AuthInit(stored) ==
    /\ step = [p \in AuthProcesses |-> "start"]
    /\ saving = [p \in AuthProcesses |-> "tokens"]
    /\ held = [p \in AuthProcesses |-> Empty]
    /\ fd = [p \in AuthProcesses |-> 0]
    /\ disk = [i \in Inodes |-> IF i = 1 THEN stored ELSE Empty]
    /\ fileAt = 1 /\ tmpAt = 0
    /\ overlapped = FALSE
    /\ owned = [client |-> stored.client, renew |-> stored.renew]

\* From `from` to one of `to`: an error anywhere is "refused".
Moves(p, from, to) ==
    /\ step[p] = from
    /\ \E s \in to : step' = [step EXCEPT ![p] = s]
    /\ UNCHANGED <<saving, held, fd, files, history>>

-----------------------------------------------------------------------------
(* save: load, change, a temporary file, a rename                          *)

MidSave == {"create", "write", "rename"}

\* Mutant: the answer's refresh token, or none, is what is kept.
RenewalDropped(p, given) == given

\* A refresh that brings no new refresh token keeps the old one.
Renewal(p, given) == given \/ p \in Apps

\* save_client_info and save_tokens change what the file says now.
LoadsToSave(p) ==
    /\ step[p] = "load"
    /\ \E given \in BOOLEAN :
           held' = [held EXCEPT ![p] =
               IF saving[p] = "client" THEN [Load EXCEPT !.client = TRUE]
               ELSE [Load EXCEPT !.tokens = "good", !.renew = Renewal(p, given)]]
    /\ step' = [step EXCEPT ![p] = "create"]
    /\ overlapped' = (overlapped \/ \E q \in AuthProcesses \ {p} : step[q] \in MidSave)
    /\ UNCHANGED <<saving, fd, files, owned>>

\* Mutant: the file itself is opened and truncated.
OpensFile(p) ==
    /\ fd' = [fd EXCEPT ![p] = fileAt]
    /\ disk' = [disk EXCEPT ![fileAt] = Empty]
    /\ tmpAt' = fileAt

\* File::create truncates what is under the name, or makes a new inode.
OpensTemporary(p) ==
    \E i \in IF tmpAt # 0 THEN {tmpAt}
             ELSE Inodes \ ({fileAt} \cup {fd[q] : q \in AuthProcesses \ {p}}) :
        /\ fd' = [fd EXCEPT ![p] = i]
        /\ disk' = [disk EXCEPT ![i] = Empty]
        /\ tmpAt' = i

CreatesTemporary(p) ==
    /\ step[p] = "create"
    /\ OpensTemporary(p)
    /\ step' = [step EXCEPT ![p] = "write"]
    /\ UNCHANGED <<saving, held, fileAt, history>>

\* Two texts written into one inode leave one of them, or neither.
WritesTemporary(p) ==
    /\ step[p] = "write"
    /\ \E text \in IF disk[fd[p]] = Empty THEN {held[p]} ELSE {held[p], Empty} :
           disk' = [disk EXCEPT ![fd[p]] = text]
    /\ step' = [step EXCEPT ![p] = "rename"]
    /\ UNCHANGED <<saving, held, fd, fileAt, tmpAt, history>>

Renames(p) ==
    /\ step[p] = "rename"
    /\ fd' = [fd EXCEPT ![p] = 0]
    /\ IF tmpAt = 0
       THEN /\ step' = [step EXCEPT ![p] = "refused"]
            /\ UNCHANGED <<fileAt, tmpAt, owned>>
       ELSE /\ step' = [step EXCEPT ![p] = IF saving[p] = "client" THEN "bind" ELSE "ready"]
            /\ fileAt' = tmpAt /\ tmpAt' = 0
            /\ owned' = [client |-> owned.client \/ held[p].client,
                         renew |-> IF p \in Logins /\ saving[p] = "tokens"
                                   THEN held[p].renew ELSE owned.renew]
    /\ UNCHANGED <<saving, held, disk, overlapped>>

-----------------------------------------------------------------------------
(* ensure_access_token                                                     *)

Ensures(p) ==
    Moves(p, "start",
        CASE Load.tokens = "good" -> {"ready"}
          [] Load.tokens = "expired" /\ Load.renew -> {"discover"}
          [] OTHER -> {"refused"})

DiscoversForRefresh(p) ==
    Moves(p, "discover", {"refused"} \cup IF Load.client THEN {"exchange"} ELSE {})

-----------------------------------------------------------------------------
(* sign_in                                                                 *)

\* Discovery, and whether this client is registered already.
Discovers(p) ==
    Moves(p, "start", {"refused", IF Load.client THEN "bind" ELSE "register"})

\* The authorization server may not register clients, or refuse this one.
Registers(p) ==
    /\ step[p] = "register"
    /\ \/ step' = [step EXCEPT ![p] = "refused"] /\ UNCHANGED saving
       \/ step' = [step EXCEPT ![p] = "load"] /\ saving' = [saving EXCEPT ![p] = "client"]
    /\ UNCHANGED <<held, fd, files, history>>

\* The redirect comes to one port of the machine.
Listening == {"browser", "accepted"}

Binds(p) ==
    Moves(p, "bind",
          IF \E q \in AuthProcesses : step[q] \in Listening THEN {"refused"} ELSE {"browser"})

\* The deadline is looked at between connections only.
SignInTimesOut(p) == Moves(p, "browser", {"refused"})
Accepts(p) == Moves(p, "browser", {"accepted"})

\* Another path is answered 404 and the loop goes on; a refusal, a callback
\* without a code or with another state ends the sign-in.
CallbackRead(p) == Moves(p, "accepted", {"browser", "refused", "exchange"})

\* The token endpoint, for a code or for a refresh token.
Exchanges(p) ==
    /\ step[p] = "exchange"
    /\ \/ step' = [step EXCEPT ![p] = "refused"] /\ UNCHANGED saving
       \/ step' = [step EXCEPT ![p] = "load"] /\ saving' = [saving EXCEPT ![p] = "tokens"]
    /\ UNCHANGED <<held, fd, files, history>>

-----------------------------------------------------------------------------
\* Killed wherever it is; in mid-write half a text is left, which is nothing.
Killed(p) ==
    /\ step[p] \notin {"ready", "refused"}
    /\ step' = [step EXCEPT ![p] = "refused"]
    /\ fd' = [fd EXCEPT ![p] = 0]
    /\ UNCHANGED <<saving, held, files, history>>

Local(p) ==
    LoadsToSave(p) \/ CreatesTemporary(p) \/ WritesTemporary(p) \/ Renames(p)

AppStep(p) == Ensures(p) \/ DiscoversForRefresh(p)
LoginStep(p) ==
    Discovers(p) \/ Registers(p) \/ Binds(p) \/ SignInTimesOut(p) \/ Accepts(p)

AuthNext ==
    \/ \E p \in AuthProcesses : Local(p) \/ Exchanges(p)
    \/ \E p \in Apps : AppStep(p)
    \/ \E p \in Logins : LoginStep(p) \/ CallbackRead(p) \/ Killed(p)

-----------------------------------------------------------------------------
(***************************************************************************)
(* Saves that do not overlap lose nothing, whatever is killed in between:  *)
(* a registration and the means to renew, once stored, load again          *)
(* (TokenStore::save: "killed in mid-way it leaves no half file").         *)
(***************************************************************************)
StoreSurvives ==
    ~overlapped =>
        /\ owned.client => Load.client
        /\ owned.renew => Load.renew
=============================================================================
